---- MODULE Spec2Model ----
(***************************************************************************)
(* Model of the core of code-condenser.py: the exclusion engine and the    *)
(* ignore-pattern matcher (ProcessWorker._is_excluded,                     *)
(* ProcessWorker._is_excluded_by_gitignore), the tree collection           *)
(* (ProcessWorker.run) and the chunk splitter                              *)
(* (CodeBaseAnalyzer.split_content_smart).                                 *)
(*                                                                         *)
(* Texts, paths and patterns are TLA+ strings; a character of a string s   *)
(* is SubSeq(s, i, i).  Python's 0-based indices are kept where the code   *)
(* computes with them (marker_indices) and shifted by one at each access.  *)
(***************************************************************************)
EXTENDS Integers, Sequences, FiniteSets, TLC

VARIABLES
    pc,                 \* position of the pipeline
    \* --- the scanned directory and the worker's configuration
    root_name,          \* base name of self.root_dir
    fs,                 \* the tree below the root: relative path -> is a directory
    gitignore_file,     \* the .gitignore at the root: exists, readable, lines
    exclude_dirs,       \* self.exclude_dirs
    exclude_files,      \* self.exclude_files
    exclude_extensions, \* self.exclude_extensions
    use_gitignore,      \* self.use_gitignore
    gitignore_patterns, \* self.gitignore_patterns
    \* --- ProcessWorker.run, first phase (lines 201-273)
    walk_stack,         \* directories os.walk has still to yield, next first
    visited,            \* directories os.walk has yielded
    processed_paths,    \* processed_paths
    \* --- a single call of _is_excluded_by_gitignore
    query_path,         \* its argument rel_path
    verdict,            \* its return value
    \* --- ProcessWorker.run, second phase (lines 275-334)
    collected_items,    \* the sorted list of (rel_path, is_dir)
    file_data,          \* what reading each collected file yields
    include_structure,  \* self.include_structure
    structure_only,     \* self.structure_only
    item_idx,           \* number of collected items the loop has processed
    structure_lines,    \* structure_lines
    file_contents,      \* file_contents, the list of file records
    errors,             \* errors
    structure_summary,  \* first argument of the finished signal
    combined_content,   \* second argument of the finished signal
    \* --- CodeBaseAnalyzer.handle_results / split_content_smart
    content,            \* full_content_to_write
    max_lines,          \* the line budget
    parts,              \* the list split_content_smart returned
    output_path,        \* the text of the output entry
    written_files,      \* the paths of the files written, in order
    \* --- the window (CodeBaseAnalyzer) and its worker thread
    signals,            \* the signals the worker has emitted, in order
    worker_running,     \* number of worker threads whose run() has not returned
    workers_started,    \* number of workers run_analysis has started
    run_button_enabled, \* self.run_button.isEnabled()
    run_outcomes,       \* what each call of run_analysis did, in order
    directory_entry,    \* the text of the directory entry
    started_output_path \* the text of the output entry when the worker started

confVars == <<root_name, fs, gitignore_file, exclude_dirs, exclude_files,
              exclude_extensions, use_gitignore>>
walkVars == <<gitignore_patterns, walk_stack, visited, processed_paths>>
queryVars == <<query_path, verdict>>
procVars == <<collected_items, file_data, include_structure, structure_only,
              item_idx, structure_lines, file_contents, errors,
              structure_summary, combined_content>>
splitVars == <<content, max_lines, parts, output_path, written_files>>
guiVars == <<worker_running, workers_started, run_outcomes, directory_entry,
             started_output_path>>
vars == <<pc, confVars, walkVars, queryVars, procVars, splitVars, signals,
          run_button_enabled, guiVars>>

(***************************************************************************)
(* Bounds of the model.                                                    *)
(***************************************************************************)
MaxPieces == 6      \* an input text is at most this many pieces long
MaxBudget == 3      \* line budgets 1..MaxBudget
MaxContentPieces == 1   \* a file's content is at most this many pieces long
MaxRecBudget == 7   \* line budgets 1..MaxRecBudget when splitting file records
MaxNodes == 3       \* a scanned tree has at most this many entries
MaxPatterns == 3    \* an ignore list of a single query has at most this many patterns
MaxPipeNodes == 2   \* a tree scanned by a whole run has at most this many entries
MaxRuns == 2        \* run_analysis is called at most this many times

(***************************************************************************)
(* String helpers (Python built-ins).                                      *)
(***************************************************************************)
CharAt(s, i) == SubSeq(s, i, i)

\* str.startswith
startswith(s, prefix) ==
    /\ Len(s) >= Len(prefix)
    /\ SubSeq(s, 1, Len(prefix)) = prefix

\* "".join(list)
RECURSIVE Join(_)
Join(strs) == IF strs = <<>> THEN "" ELSE Head(strs) \o Join(Tail(strs))

\* The line boundaries str.splitlines recognises, among the characters of
\* the model ("\r\n" counts as one boundary).
LineBreaks == {"\n", "\r", "\f"}

\* str.splitlines(keepends=True): every line keeps its terminator; text after
\* the last terminator is a final unterminated line; "" has no lines.
\* SplitLinesFrom(s, i) is the lines of s from position i on.
RECURSIVE SplitLinesFrom(_, _)
SplitLinesFrom(s, i) ==
    IF i > Len(s) THEN <<>>
    ELSE LET breaks == {j \in i..Len(s) : CharAt(s, j) \in LineBreaks}
         IN  IF breaks = {} THEN <<SubSeq(s, i, Len(s))>>
             ELSE LET b == CHOOSE j \in breaks : \A k \in breaks : j <= k
                      e == IF CharAt(s, b) = "\r" /\ b < Len(s)
                              /\ CharAt(s, b + 1) = "\n"
                           THEN b + 1 ELSE b
                  IN  <<SubSeq(s, i, e)>> \o SplitLinesFrom(s, e + 1)

splitlines(s) == SplitLinesFrom(s, 1)

\* str.strip() leaves nothing
Whitespace == {" ", "\t", "\n", "\r", "\f"}
IsBlank(s) == \A i \in 1..Len(s) : CharAt(s, i) \in Whitespace

(***************************************************************************)
(* CodeBaseAnalyzer.split_content_smart                                    *)
(***************************************************************************)
file_marker == ">>>File: "

\* [i for i, line in enumerate(lines) if line.startswith(file_marker)],
\* 0-based, ascending; k is the 0-based index scanned next.
RECURSIVE MarkerScan(_, _)
MarkerScan(lines, k) ==
    IF k >= Len(lines) THEN <<>>
    ELSE (IF startswith(lines[k + 1], file_marker) THEN <<k>> ELSE <<>>)
         \o MarkerScan(lines, k + 1)

\* marker_indices = [-1] + the marker lines' indices
marker_indices(lines) == <<-1>> \o MarkerScan(lines, 0)

MutBlockDropsMarker(lines, mi, i) ==
    LET start_index == mi[i + 1] + 1
        end_index   == IF i + 1 < Len(mi) THEN mi[i + 2] ELSE Len(lines)
    IN  SubSeq(lines, start_index + 1, end_index)

\* The block of loop iteration i (0-based): lines[start_index:end_index], with
\* the marker line itself put in front when i > 0.
block_lines(lines, mi, i) ==
    LET start_index == mi[i + 1] + 1
        end_index   == IF i + 1 < Len(mi) THEN mi[i + 2] ELSE Len(lines)
        body        == SubSeq(lines, start_index + 1, end_index)
    IN  IF i > 0 THEN <<lines[mi[i + 1] + 1]>> \o body ELSE body

MutCutsHugeBlock(st, block, budget) ==
    IF block = <<>> THEN st
    ELSE IF Len(block) > budget
    THEN [parts |-> (IF st.current_part_lines # <<>>
                     THEN Append(st.parts, Join(st.current_part_lines))
                     ELSE st.parts)
                    \o <<Join(SubSeq(block, 1, budget)),
                         Join(SubSeq(block, budget + 1, Len(block)))>>,
          current_part_lines |-> <<>>,
          current_line_count |-> 0]
    ELSE LET fl == IF st.current_line_count > 0
                      /\ st.current_line_count + Len(block) > budget
                   THEN [parts |-> Append(st.parts, Join(st.current_part_lines)),
                         current_part_lines |-> <<>>,
                         current_line_count |-> 0]
                   ELSE st
         IN  [parts |-> fl.parts,
              current_part_lines |-> fl.current_part_lines \o block,
              current_line_count |-> fl.current_line_count + Len(block)]

MutNoFlushBeforeHuge(st, block, budget) ==
    IF block = <<>> THEN st
    ELSE IF Len(block) > budget
    THEN [parts |-> st.parts \o <<Join(st.current_part_lines \o block)>>,
          current_part_lines |-> <<>>,
          current_line_count |-> 0]
    ELSE LET fl == IF st.current_line_count > 0
                      /\ st.current_line_count + Len(block) > budget
                   THEN [parts |-> Append(st.parts, Join(st.current_part_lines)),
                         current_part_lines |-> <<>>,
                         current_line_count |-> 0]
                   ELSE st
         IN  [parts |-> fl.parts,
              current_part_lines |-> fl.current_part_lines \o block,
              current_line_count |-> fl.current_line_count + Len(block)]

MutFlushesEveryBlock(st, block, budget) ==
    IF block = <<>> THEN st
    ELSE [parts |-> Append(st.parts, Join(block)),
          current_part_lines |-> <<>>,
          current_line_count |-> 0]

\* One iteration of the loop over the blocks: st is the loop state
\* (parts, current_part_lines, current_line_count).
SplitStep(st, block, budget) ==
    IF block = <<>> THEN st                             \* continue
    ELSE IF Len(block) > budget
    THEN \* the block alone is over the budget: finalize the current part,
         \* then the block is a part of its own
         [parts |-> (IF st.current_part_lines # <<>>
                     THEN Append(st.parts, Join(st.current_part_lines))
                     ELSE st.parts) \o <<Join(block)>>,
          current_part_lines |-> <<>>,
          current_line_count |-> 0]
    ELSE LET fl == IF st.current_line_count > 0
                      /\ st.current_line_count + Len(block) > budget
                   THEN [parts |-> Append(st.parts, Join(st.current_part_lines)),
                         current_part_lines |-> <<>>,
                         current_line_count |-> 0]
                   ELSE st
         IN  [parts |-> fl.parts,
              current_part_lines |-> fl.current_part_lines \o block,
              current_line_count |-> fl.current_line_count + Len(block)]

\* for i in range(len(marker_indices)), from iteration i on
RECURSIVE SplitLoop(_, _, _, _, _)
SplitLoop(lines, mi, budget, i, st) ==
    IF i >= Len(mi) THEN st
    ELSE SplitLoop(lines, mi, budget, i + 1,
                   SplitStep(st, block_lines(lines, mi, i), budget))

split_content_smart(text, budget) ==
    IF text = "" THEN <<>>
    ELSE LET lines == splitlines(text)
         IN  IF lines = <<>> THEN <<>>
             ELSE LET st == SplitLoop(lines, marker_indices(lines), budget, 0,
                                      [parts |-> <<>>,
                                       current_part_lines |-> <<>>,
                                       current_line_count |-> 0])
                  IN  IF st.current_part_lines # <<>>
                      THEN Append(st.parts, Join(st.current_part_lines))
                      ELSE st.parts

(***************************************************************************)
(* Input texts of the splitter: concatenations of at most MaxPieces pieces *)
(***************************************************************************)
Pieces == {file_marker, "x", "\n", "\r"}

RECURSIVE TextsUpTo(_)
TextsUpTo(n) ==
    IF n = 0 THEN {""}
    ELSE LET shorter == TextsUpTo(n - 1)
         IN  shorter \cup {t \o p : t \in shorter, p \in Pieces}

Budgets == 1..MaxBudget

(***************************************************************************)
(* SpecSplit: split_content_smart applied to an arbitrary text             *)
(***************************************************************************)
\* the scan's variables when no directory is scanned
NoGitignore == [exists |-> FALSE, readable |-> FALSE, lines |-> <<>>]

ScanIdle ==
    /\ root_name = ""
    /\ fs = <<>>
    /\ gitignore_file = NoGitignore
    /\ exclude_dirs = {}
    /\ exclude_files = {}
    /\ exclude_extensions = {}
    /\ use_gitignore = FALSE
    /\ gitignore_patterns = <<>>
    /\ walk_stack = <<>>
    /\ visited = {}
    /\ processed_paths = {}
    /\ query_path = ""
    /\ verdict = FALSE

\* one worker is running, started by the one call of run_analysis; sigs are
\* the signals it has emitted
WorkerAlone(sigs) ==
    /\ signals = sigs
    /\ worker_running = 1
    /\ workers_started = 1
    /\ run_button_enabled = FALSE
    /\ run_outcomes = <<"started">>
    /\ directory_entry = "proj"

\* the worker's variables when no scan result is involved
ProcIdle ==
    /\ collected_items = <<>>
    /\ file_data = <<>>
    /\ include_structure = FALSE
    /\ structure_only = FALSE
    /\ item_idx = 0
    /\ structure_lines = <<>>
    /\ file_contents = <<>>
    /\ errors = <<>>
    /\ structure_summary = ""
    /\ combined_content = ""

InitSplit ==
    /\ pc = "split_ready"
    /\ ScanIdle
    /\ WorkerAlone(<<>>)
    /\ ProcIdle
    /\ content \in TextsUpTo(MaxPieces)
    /\ max_lines \in Budgets
    /\ parts = <<>>
    /\ output_path = "out.txt"
    /\ started_output_path = output_path
    /\ written_files = <<>>

\* handle_results, chunked branch: parts = self.split_content_smart(...)
SplitContent ==
    /\ pc = "split_ready"
    /\ parts' = split_content_smart(content, max_lines)
    /\ pc' = "split_done"
    /\ UNCHANGED <<content, max_lines, output_path, written_files, confVars,
                   walkVars, queryVars, procVars,
                   signals, run_button_enabled, guiVars>>

NextSplit == SplitContent

SpecSplit == InitSplit /\ [][NextSplit]_vars

(***************************************************************************)
(* Characters: code-point order and lower case                             *)
(***************************************************************************)
\* the characters of the model's names and patterns, in code-point order
AsciiTable ==
    "!#*-./0123456789?ABCDEFGHIJKLMNOPQRSTUVWXYZ[]_abcdefghijklmnopqrstuvwxyz"
UpperCase == "ABCDEFGHIJKLMNOPQRSTUVWXYZ"
LowerCase == "abcdefghijklmnopqrstuvwxyz"

\* the 1-based position of character ch in string table, 0 when absent
IndexIn(table, ch) ==
    LET hits == {k \in 1..Len(table) : CharAt(table, k) = ch}
    IN  IF hits = {} THEN 0 ELSE CHOOSE k \in hits : TRUE

\* ord(ch), up to the order-preserving renumbering of the table
Ord(ch) == IndexIn(AsciiTable, ch)

\* str.lower
RECURSIVE Lower(_)
Lower(s) ==
    IF s = "" THEN ""
    ELSE LET ch == CharAt(s, 1)
             k  == IndexIn(UpperCase, ch)
         IN  (IF k = 0 THEN ch ELSE CharAt(LowerCase, k)) \o Lower(Tail(s))

\* s < t for str: code-point lexicographic order
RECURSIVE StrLess(_, _)
StrLess(s, t) ==
    IF t = "" THEN FALSE
    ELSE IF s = "" THEN TRUE
    ELSE IF CharAt(s, 1) = CharAt(t, 1) THEN StrLess(Tail(s), Tail(t))
    ELSE Ord(CharAt(s, 1)) < Ord(CharAt(t, 1))

(***************************************************************************)
(* fnmatch.fnmatchcase(name, pat)                                          *)
(***************************************************************************)
\* The position of the "]" that closes the class opened by the "[" at
\* position j of pat, 0 when the "[" is not closed (it is then a literal):
\* a "!" right after the "[" and a "]" right after that do not close it.
ClassEnd(pat, j) ==
    LET k1 == IF j + 1 <= Len(pat) /\ CharAt(pat, j + 1) = "!"
              THEN j + 2 ELSE j + 1
        k2 == IF k1 <= Len(pat) /\ CharAt(pat, k1) = "]" THEN k1 + 1 ELSE k1
        closes == {k \in k2..Len(pat) : CharAt(pat, k) = "]"}
    IN  IF closes = {} THEN 0
        ELSE CHOOSE k \in closes : \A m \in closes : k <= m

\* ch is one of the members of a class body: single characters and ranges x-y
RECURSIVE InClass(_, _)
InClass(ch, members) ==
    IF members = "" THEN FALSE
    ELSE IF Len(members) >= 3 /\ CharAt(members, 2) = "-"
    THEN \/ /\ Ord(CharAt(members, 1)) <= Ord(ch)
            /\ Ord(ch) <= Ord(CharAt(members, 3))
         \/ InClass(ch, SubSeq(members, 4, Len(members)))
    ELSE \/ ch = CharAt(members, 1)
         \/ InClass(ch, Tail(members))

\* ch matches the class whose text between the brackets is stuff
ClassMatches(ch, stuff) ==
    IF stuff = "" THEN FALSE
    ELSE IF stuff = "!" THEN TRUE
    ELSE IF CharAt(stuff, 1) = "!" THEN ~InClass(ch, Tail(stuff))
    ELSE InClass(ch, stuff)

\* name from position i on matches pat from position j on: "*" matches any
\* run of characters ("/" included), "?" any one character, "[...]" a class
RECURSIVE FnMatchFrom(_, _, _, _)
FnMatchFrom(name, i, pat, j) ==
    IF j > Len(pat) THEN i > Len(name)
    ELSE LET c == CharAt(pat, j)
         IN  IF c = "*"
             THEN \E k \in i..(Len(name) + 1) : FnMatchFrom(name, k, pat, j + 1)
             ELSE IF c = "?"
             THEN i <= Len(name) /\ FnMatchFrom(name, i + 1, pat, j + 1)
             ELSE IF c = "[" /\ ClassEnd(pat, j) # 0
             THEN /\ i <= Len(name)
                  /\ ClassMatches(CharAt(name, i),
                                  SubSeq(pat, j + 1, ClassEnd(pat, j) - 1))
                  /\ FnMatchFrom(name, i + 1, pat, ClassEnd(pat, j) + 1)
             ELSE /\ i <= Len(name)
                  /\ CharAt(name, i) = c
                  /\ FnMatchFrom(name, i + 1, pat, j + 1)

fnmatchcase(name, pat) == FnMatchFrom(name, 1, pat, 1)

(***************************************************************************)
(* Python string and path built-ins used by the exclusion engine           *)
(***************************************************************************)
MutStripNothing(s) == s

\* str.strip(): leading and trailing whitespace removed
RECURSIVE LStrip(_)
LStrip(s) ==
    IF s # "" /\ CharAt(s, 1) \in Whitespace THEN LStrip(Tail(s)) ELSE s
RECURSIVE RStrip(_)
RStrip(s) ==
    IF s # "" /\ CharAt(s, Len(s)) \in Whitespace
    THEN RStrip(SubSeq(s, 1, Len(s) - 1)) ELSE s
strip(s) == LStrip(RStrip(s))

\* str.rstrip('/') and str.lstrip('/')
RECURSIVE RStripSlash(_)
RStripSlash(s) ==
    IF s # "" /\ CharAt(s, Len(s)) = "/"
    THEN RStripSlash(SubSeq(s, 1, Len(s) - 1)) ELSE s
RECURSIVE LStripSlash(_)
LStripSlash(s) ==
    IF s # "" /\ CharAt(s, 1) = "/" THEN LStripSlash(Tail(s)) ELSE s

\* str.split('/')
RECURSIVE SplitSlash(_)
SplitSlash(s) ==
    LET slashes == {k \in 1..Len(s) : CharAt(s, k) = "/"}
    IN  IF slashes = {} THEN <<s>>
        ELSE LET k == CHOOSE x \in slashes : \A y \in slashes : x <= y
             IN  <<SubSeq(s, 1, k - 1)>> \o SplitSlash(SubSeq(s, k + 1, Len(s)))

\* os.path.splitext(name)[1] of a base name: the text from the last "." on,
\* "" when there is no "." or only "." characters come before it
splitext_ext(name) ==
    LET dots == {k \in 1..Len(name) : CharAt(name, k) = "."}
    IN  IF dots = {} THEN ""
        ELSE LET dotIndex == CHOOSE k \in dots : \A m \in dots : m <= k
             IN  IF \E f \in 1..(dotIndex - 1) : CharAt(name, f) # "."
                 THEN SubSeq(name, dotIndex, Len(name))
                 ELSE ""

\* str.count of a one-character string
RECURSIVE CountChar(_, _)
CountChar(s, ch) ==
    IF s = "" THEN 0
    ELSE (IF CharAt(s, 1) = ch THEN 1 ELSE 0) + CountChar(Tail(s), ch)

\* the 1-based position of the last "/" of s, 0 when there is none
RECURSIVE LastSlash(_, _)
LastSlash(s, i) ==
    IF i = 0 THEN 0
    ELSE IF CharAt(s, i) = "/" THEN i ELSE LastSlash(s, i - 1)

\* os.path.basename on a forward-slash path
basename(path) == SubSeq(path, LastSlash(path, Len(path)) + 1, Len(path))

\* os.path.join(rel_root, name) if rel_root else name
JoinPath(rel_root, name) ==
    IF rel_root # "" THEN rel_root \o "/" \o name ELSE name

(***************************************************************************)
(* ProcessWorker._load_gitignore                                           *)
(***************************************************************************)
\* the lines kept as patterns: stripped, not empty, not starting with "#"
RECURSIVE LoadedPatterns(_)
LoadedPatterns(lines) ==
    IF lines = <<>> THEN <<>>
    ELSE LET line == strip(Head(lines))
         IN  (IF line # "" /\ ~startswith(line, "#") THEN <<line>> ELSE <<>>)
             \o LoadedPatterns(Tail(lines))

\* the value of self.gitignore_patterns after _load_gitignore: the file is
\* read only when use_gitignore is set and the file exists; a read that
\* raises leaves the list empty
load_gitignore(use, file) ==
    IF use /\ file.exists /\ file.readable
    THEN LoadedPatterns(file.lines)
    ELSE <<>>

\* the progress signals of _load_gitignore: "Reading .gitignore..." followed
\* by "Loaded n patterns" or by the warning; ".gitignore not found."; none
load_progress(use, file) ==
    IF use /\ file.exists THEN <<"progress_update", "progress_update">>
    ELSE IF use THEN <<"progress_update">>
    ELSE <<>>

(***************************************************************************)
(* ProcessWorker._is_excluded_by_gitignore                                 *)
(***************************************************************************)
\* lines 123-126: the pattern without its leading "!"
Unnegated(pattern) ==
    IF startswith(pattern, "!") THEN Tail(pattern) ELSE pattern

MutRootedAsAnywhere(pattern, path_to_check, is_dir) ==
    LET p3 == LStripSlash(pattern)
        components == SplitSlash(path_to_check)
    IN  \/ fnmatchcase(path_to_check, p3)
        \/ \E k \in 1..Len(components) : fnmatchcase(components[k], p3)

\* lines 135-142: a pattern with a leading "/" against the whole path
RootedMatch(pattern, path_to_check, is_dir) ==
    LET p3 == LStripSlash(pattern)
    IN  \/ fnmatchcase(path_to_check, p3)
        \/ (is_dir /\ startswith(path_to_check, p3 \o "/"))
        \/ (~is_dir /\ startswith(path_to_check, p3 \o "/"))

MutBasenameOnly(pattern, path_to_check) ==
    fnmatchcase(basename(path_to_check), pattern)

MutAnywhereWholePath(pattern, path_to_check) ==
    LET components == SplitSlash(path_to_check)
    IN  \/ fnmatchcase(path_to_check, pattern)
        \/ \E k \in 1..Len(components) : fnmatchcase(components[k], pattern)

\* lines 145-150: a pattern without a leading "/" against the base name and
\* every component of the path
AnywhereMatch(pattern, path_to_check) ==
    LET components == SplitSlash(path_to_check)
    IN  \/ fnmatchcase(basename(path_to_check), pattern)
        \/ \E k \in 1..Len(components) : fnmatchcase(components[k], pattern)

MutNoDirOnlyRule(is_dir_pattern, is_dir) == FALSE

\* lines 154-157: a pattern for directories cancels the match of a file
DirOnlyCancels(is_dir_pattern, is_dir) == is_dir_pattern /\ ~is_dir

\* lines 119-157, one iteration of the loop: the value of match for one
\* pattern (FALSE when the iteration ends with "continue")
PatternMatches(pattern, path_to_check, is_dir) ==
    LET p1 == Unnegated(pattern)
        is_dir_pattern == p1 # "" /\ CharAt(p1, Len(p1)) = "/"
        p2 == RStripSlash(p1)
        textual ==
            IF startswith(p2, "/")
            THEN RootedMatch(p2, path_to_check, is_dir)
            ELSE AnywhereMatch(p2, path_to_check)
    IN  IF p1 = "" \/ p2 = "" THEN FALSE
        ELSE textual /\ ~DirOnlyCancels(is_dir_pattern, is_dir)

MutLastMatchWins(patterns, k, path_to_check, is_dir) ==
    LET hits == {m \in k..Len(patterns) :
                    PatternMatches(patterns[m], path_to_check, is_dir)}
    IN  IF hits = {} THEN FALSE
        ELSE ~startswith(patterns[CHOOSE m \in hits : \A h \in hits : h <= m],
                         "!")

\* lines 118-172: the loop over the patterns, from the k-th pattern on
RECURSIVE IgnoreLoop(_, _, _, _)
IgnoreLoop(patterns, k, path_to_check, is_dir) ==
    IF k > Len(patterns) THEN FALSE
    ELSE IF PatternMatches(patterns[k], path_to_check, is_dir)
         THEN ~startswith(patterns[k], "!")
         ELSE IgnoreLoop(patterns, k + 1, path_to_check, is_dir)

\* os.path.isdir(os.path.join(self.root_dir, rel_path))
isdir(rel_path) ==
    rel_path = "" \/ (rel_path \in DOMAIN fs /\ fs[rel_path])

\* path_to_check is rel_path itself: the paths of the model use "/"
is_excluded_by_gitignore(rel_path) ==
    IgnoreLoop(gitignore_patterns, 1, rel_path, isdir(rel_path))

(***************************************************************************)
(* ProcessWorker._is_excluded                                              *)
(***************************************************************************)
\* lines 93-96 and 252-253: the file name is listed or matches a listed glob
FileNameExcluded(name) ==
    \/ name \in exclude_files
    \/ \E pattern \in exclude_files : fnmatchcase(name, pattern)

MutNoExtensionRule(name) == FALSE

\* lines 99-100 and 258-259
MutCaseSensitiveExtension(name) == splitext_ext(name) \in exclude_extensions

ExtensionExcluded(name) == Lower(splitext_ext(name)) \in exclude_extensions

is_excluded(rel_path) ==
    LET name == basename(rel_path)
        is_dir == isdir(rel_path)
    IN  IF is_dir /\ name \in exclude_dirs THEN TRUE
        ELSE IF ~is_dir /\ FileNameExcluded(name) THEN TRUE
        ELSE IF ~is_dir /\ ExtensionExcluded(name) THEN TRUE
        ELSE IF use_gitignore /\ is_excluded_by_gitignore(rel_path) THEN TRUE
        ELSE FALSE

(***************************************************************************)
(* ProcessWorker.run, first phase: the walk                                *)
(***************************************************************************)
\* the parent directory of a relative path ("" is the root)
ParentOf(path) ==
    IF LastSlash(path, Len(path)) = 0 THEN ""
    ELSE SubSeq(path, 1, LastSlash(path, Len(path)) - 1)

\* what scanning directory rel_root lists: the names of its subdirectories
\* and of its files (the .gitignore is a file of the root)
SubdirNames(rel_root) ==
    {basename(p) : p \in {q \in DOMAIN fs : ParentOf(q) = rel_root /\ fs[q]}}
FileNames(rel_root) ==
    {basename(p) : p \in {q \in DOMAIN fs : ParentOf(q) = rel_root /\ ~fs[q]}}
    \cup (IF rel_root = "" /\ gitignore_file.exists THEN {".gitignore"} ELSE {})

\* every order in which a set of names may be listed
Orders(S) ==
    {q \in [1..Cardinality(S) -> S] :
        \A i, j \in 1..Cardinality(S) : i # j => q[i] # q[j]}

\* line 222: dirs[:] = [d for d in dirs if d not in self.exclude_dirs]
RECURSIVE FilterByName(_)
FilterByName(dirs) ==
    IF dirs = <<>> THEN <<>>
    ELSE (IF Head(dirs) \notin exclude_dirs THEN <<Head(dirs)>> ELSE <<>>)
         \o FilterByName(Tail(dirs))

MutNoIgnorePruning(rel_root, dirs) == dirs

\* lines 225-232: the directories the ignore patterns do not exclude
RECURSIVE FilterByGitignore(_, _)
FilterByGitignore(rel_root, dirs) ==
    IF dirs = <<>> THEN <<>>
    ELSE (IF is_excluded_by_gitignore(JoinPath(rel_root, Head(dirs)))
          THEN <<>> ELSE <<Head(dirs)>>)
         \o FilterByGitignore(rel_root, Tail(dirs))

MutKeepsNamedDirs(rel_root, dirs) == FilterByGitignore(rel_root, dirs)

\* lines 217-232: the value of dirs after both filters
final_dirs(rel_root, dirs) == FilterByGitignore(rel_root, FilterByName(dirs))

\* lines 235-240: the surviving directories are collected; st is
\* [items, seen] = (collected_items, processed_paths)
RECURSIVE CollectDirs(_, _, _)
CollectDirs(rel_root, dirs, st) ==
    IF dirs = <<>> THEN st
    ELSE LET norm_path == JoinPath(rel_root, Head(dirs))
         IN  CollectDirs(rel_root, Tail(dirs),
                 IF norm_path \notin st.seen
                 THEN [items |-> Append(st.items, <<norm_path, TRUE>>),
                       seen  |-> st.seen \cup {norm_path}]
                 ELSE st)

\* a negated pattern is the first pattern that matches the path
NegatedFirstMatch(rel_path) ==
    \E k \in 1..Len(gitignore_patterns) :
        /\ startswith(gitignore_patterns[k], "!")
        /\ PatternMatches(gitignore_patterns[k], rel_path, isdir(rel_path))
        /\ \A m \in 1..(k - 1) :
               ~PatternMatches(gitignore_patterns[m], rel_path, isdir(rel_path))

MutNegationBeatsLists(rel_root, file, st) ==
    LET norm_path == JoinPath(rel_root, file)
    IN  IF norm_path \in st.seen THEN st
        ELSE IF NegatedFirstMatch(norm_path)
        THEN [items |-> Append(st.items, <<norm_path, FALSE>>),
              seen  |-> st.seen \cup {norm_path}]
        ELSE IF FileNameExcluded(file) \/ ExtensionExcluded(file)
                \/ is_excluded_by_gitignore(norm_path)
        THEN [st EXCEPT !.seen = @ \cup {norm_path}]
        ELSE [items |-> Append(st.items, <<norm_path, FALSE>>),
              seen  |-> st.seen \cup {norm_path}]

MutCollectsListedFile(rel_root, file, st) ==
    LET norm_path == JoinPath(rel_root, file)
    IN  IF norm_path \in st.seen THEN st
        ELSE IF is_excluded_by_gitignore(norm_path)
        THEN [st EXCEPT !.seen = @ \cup {norm_path}]
        ELSE [items |-> Append(st.items, <<norm_path, FALSE>>),
              seen  |-> st.seen \cup {norm_path}]

\* lines 245-270: one iteration of "for file in files"
CollectFile(rel_root, file, st) ==
    LET norm_path == JoinPath(rel_root, file)
    IN  IF norm_path \in st.seen THEN st
        ELSE IF FileNameExcluded(file)
        THEN [st EXCEPT !.seen = @ \cup {norm_path}]
        ELSE IF ExtensionExcluded(file)
        THEN [st EXCEPT !.seen = @ \cup {norm_path}]
        ELSE IF is_excluded_by_gitignore(norm_path)
        THEN [st EXCEPT !.seen = @ \cup {norm_path}]
        ELSE [items |-> Append(st.items, <<norm_path, FALSE>>),
              seen  |-> st.seen \cup {norm_path}]

RECURSIVE CollectFiles(_, _, _)
CollectFiles(rel_root, files, st) ==
    IF files = <<>> THEN st
    ELSE CollectFiles(rel_root, Tail(files),
                      CollectFile(rel_root, Head(files), st))

MutCaseBlindLess(x, y) ==
    \/ StrLess(Lower(x[1]), Lower(y[1]))
    \/ (Lower(x[1]) = Lower(y[1]) /\ ~x[2] /\ y[2])

\* tuple order of (norm_path, is_dir): by path, then False before True
ItemLess(x, y) ==
    \/ StrLess(x[1], y[1])
    \/ (x[1] = y[1] /\ ~x[2] /\ y[2])

\* list.sort(): the items in ascending order (insertion into a sorted list)
RECURSIVE InsertSorted(_, _)
InsertSorted(sorted, x) ==
    IF sorted = <<>> THEN <<x>>
    ELSE IF ItemLess(x, Head(sorted)) THEN <<x>> \o sorted
    ELSE <<Head(sorted)>> \o InsertSorted(Tail(sorted), x)

MutNoSort(items) == items

RECURSIVE SortItems(_)
SortItems(items) ==
    IF items = <<>> THEN <<>>
    ELSE InsertSorted(SortItems(SubSeq(items, 1, Len(items) - 1)),
                      items[Len(items)])

\* lines 201-208: self._load_gitignore(), the progress signal "Starting
\* directory scan...", then the walk starts at the root
LoadGitignore ==
    /\ pc = "start"
    /\ gitignore_patterns' = load_gitignore(use_gitignore, gitignore_file)
    /\ signals' = signals \o load_progress(use_gitignore, gitignore_file)
                           \o <<"progress_update">>
    /\ walk_stack' = <<"">>
    /\ pc' = "walking"
    /\ UNCHANGED <<confVars, visited, processed_paths, queryVars, procVars,
                   splitVars,
                   run_button_enabled, guiVars>>

\* lines 213-270: one iteration of "for root, dirs, files in os.walk(...)";
\* the directory lists its entries in any order, and os.walk goes on with
\* the directories left in dirs, depth first
WalkDir ==
    /\ pc = "walking"
    /\ walk_stack # <<>>
    /\ LET rel_root == Head(walk_stack)
       IN  \E dirs \in Orders(SubdirNames(rel_root)),
              files \in Orders(FileNames(rel_root)) :
              LET kept == final_dirs(rel_root, dirs)
                  st0  == [items |-> collected_items, seen |-> processed_paths]
                  st1  == CollectDirs(rel_root, kept, st0)
                  st2  == CollectFiles(rel_root, files, st1)
              IN  /\ collected_items' = st2.items
                  /\ processed_paths' = st2.seen
                  /\ walk_stack' =
                         [k \in 1..Len(kept) |-> JoinPath(rel_root, kept[k])]
                             \o Tail(walk_stack)
                  /\ visited' = visited \cup {rel_root}
    /\ UNCHANGED <<pc, confVars, gitignore_patterns, queryVars, file_data,
                   include_structure, structure_only, item_idx,
                   structure_lines, file_contents, errors, structure_summary,
                   combined_content, splitVars,
                   signals, run_button_enabled, guiVars>>

\* line 273: collected_items.sort(), once the walk is over
SortCollected ==
    /\ pc = "walking"
    /\ walk_stack = <<>>
    /\ collected_items' = SortItems(collected_items)
    /\ signals' = Append(signals, "progress_update")
    /\ pc' = "processing"
    /\ UNCHANGED <<confVars, walkVars, queryVars, file_data, include_structure,
                   structure_only, item_idx, structure_lines, file_contents,
                   errors, structure_summary, combined_content, splitVars,
                   run_button_enabled, guiVars>>

(***************************************************************************)
(* SpecWalk: the scan of a directory tree under a rule configuration       *)
(***************************************************************************)
Names == {"b", "a.o"}

\* the trees with at most n entries: an entry's parent is the root or a
\* directory of the tree
RECURSIVE TreesUpTo(_)
TreesUpTo(n) ==
    IF n = 0 THEN {<<>>}
    ELSE LET smaller == TreesUpTo(n - 1)
         IN  smaller \cup
             UNION { { (JoinPath(pn[1], pn[2]) :> kind) @@ t :
                         pn \in {x \in ({""} \cup {d \in DOMAIN t : t[d]})
                                        \X Names :
                                    JoinPath(x[1], x[2]) \notin DOMAIN t},
                         kind \in BOOLEAN }
                     : t \in smaller }

\* base names of the scanned root
RootNames == {"proj", "b"}

\* the explicit exclusion lists of the runs
RuleLists ==
    { [dirs |-> {},    files |-> {},      exts |-> {}],
      [dirs |-> {"b"}, files |-> {},      exts |-> {}],
      [dirs |-> {},    files |-> {"a.o"}, exts |-> {}],
      [dirs |-> {},    files |-> {"*.o"}, exts |-> {}],
      [dirs |-> {},    files |-> {},      exts |-> {".o"}],
      [dirs |-> {"b"}, files |-> {"*.o"}, exts |-> {".o"}] }

\* the lines of the .gitignore files of the runs: at most two different lines
IgnoreLinePool == {"b", "!b", "/b/", "*.o", "!a.o"}
IgnoreLineLists ==
    {<<>>} \cup {<<x>> : x \in IgnoreLinePool}
           \cup {l \in {<<x, y>> : x \in IgnoreLinePool, y \in IgnoreLinePool} :
                    l[1] # l[2]}

GitignoreFiles ==
    {NoGitignore, [exists |-> TRUE, readable |-> FALSE, lines |-> <<>>]}
    \cup {[exists |-> TRUE, readable |-> TRUE, lines |-> ls] :
             ls \in IgnoreLineLists}

\* the walk has not started
WalkStart ==
    /\ pc = "start"
    /\ WorkerAlone(<<>>)
    /\ gitignore_patterns = <<>>
    /\ walk_stack = <<>>
    /\ visited = {}
    /\ processed_paths = {}
    /\ query_path = ""
    /\ verdict = FALSE
    /\ ProcIdle
    /\ content = ""
    /\ max_lines = -1
    /\ parts = <<>>
    /\ output_path = "out.txt"
    /\ started_output_path = output_path
    /\ written_files = <<>>

\* a tree with build/tmp.o and build/keep.txt, scanned with the ignore file
\* "build/", "!build/keep.txt"
BuildTree ==
    ("build" :> TRUE) @@ ("build/tmp.o" :> FALSE) @@ ("build/keep.txt" :> FALSE)
BuildTrees ==
    { BuildTree,
      BuildTree @@ ("keep.txt" :> FALSE),
      BuildTree @@ ("src" :> TRUE) @@ ("src/keep.txt" :> FALSE) }
BuildIgnoreLines == <<"build/", "!build/keep.txt">>
BuildRuleLists ==
    { [dirs |-> {},        files |-> {},      exts |-> {}],
      [dirs |-> {"build"}, files |-> {"*.o"}, exts |-> {".o"}] }

\* trees with upper-case letters in a file's extension, next to a directory
\* named like an excluded file
CaseTrees ==
    { ("A.O" :> FALSE),
      ("A.O" :> FALSE) @@ ("a.o" :> TRUE),
      ("a.o" :> TRUE) @@ ("a.o/A.O" :> FALSE),
      ("b" :> TRUE) @@ ("b/a.O" :> FALSE) }

InitWalk ==
    /\ WalkStart
    /\ \/ /\ use_gitignore \in BOOLEAN
          /\ root_name \in IF use_gitignore THEN {"proj"} ELSE RootNames
          /\ fs \in TreesUpTo(MaxNodes)
          /\ \E r \in RuleLists :
                /\ exclude_dirs = r.dirs
                /\ exclude_files = r.files
                /\ exclude_extensions = r.exts
          /\ gitignore_file \in
                 IF use_gitignore THEN GitignoreFiles
                 ELSE {NoGitignore,
                       [exists |-> TRUE, readable |-> TRUE, lines |-> <<"b">>]}
       \/ /\ root_name = "proj"
          /\ fs \in BuildTrees
          /\ \E r \in BuildRuleLists :
                /\ exclude_dirs = r.dirs
                /\ exclude_files = r.files
                /\ exclude_extensions = r.exts
          /\ use_gitignore = TRUE
          /\ gitignore_file =
                 [exists |-> TRUE, readable |-> TRUE, lines |-> BuildIgnoreLines]
       \/ /\ root_name = "proj"
          /\ fs \in CaseTrees
          /\ \E r \in RuleLists :
                /\ exclude_dirs = r.dirs
                /\ exclude_files = r.files
                /\ exclude_extensions = r.exts
          /\ use_gitignore = FALSE
          /\ gitignore_file = NoGitignore

NextWalk == LoadGitignore \/ WalkDir \/ SortCollected

SpecWalk == InitWalk /\ [][NextWalk]_vars

(***************************************************************************)
(* SpecIgnore: _is_excluded_by_gitignore applied to one path               *)
(***************************************************************************)
PatternPool ==
    {"b", "!b", "b/", "!b/", "/b", "/b/", "*.o", "/*.o", "!a.o", "b/a.o", "!"}
QueryPaths == {"b", "a.o", "b/a.o", "c/b", "b/c"}

RECURSIVE PatternListsUpTo(_)
PatternListsUpTo(n) ==
    IF n = 0 THEN {<<>>}
    ELSE LET shorter == PatternListsUpTo(n - 1)
         IN  shorter \cup {Append(l, x) : l \in shorter, x \in PatternPool}

\* the directories above a relative path
AncestorsOf(path) ==
    {SubSeq(path, 1, k - 1) : k \in {i \in 1..Len(path) : CharAt(path, i) = "/"}}

\* patterns and paths with a "/" inside: the example build/, !build/keep.txt,
\* a pattern with a directory part, a bracket class that holds a "/", and
\* rooted patterns with a wildcard
SlashPatternPool ==
    {"build/", "!build/keep.txt", "docs/*.md", "a[/.]o", "/*.o", "/b?a.o"}
SlashQueryPaths ==
    {"build", "build/tmp.o", "build/keep.txt", "docs/x.md", "a.o", "b/a.o"}

RECURSIVE PatternListsOver(_, _)
PatternListsOver(pool, n) ==
    IF n = 0 THEN {<<>>}
    ELSE LET shorter == PatternListsOver(pool, n - 1)
         IN  shorter \cup {Append(l, x) : l \in shorter, x \in pool}

InitIgnore ==
    /\ pc = "query_ready"
    /\ WorkerAlone(<<>>)
    /\ root_name = "proj"
    /\ \/ /\ query_path \in QueryPaths
          /\ gitignore_patterns \in PatternListsUpTo(MaxPatterns)
       \/ /\ query_path \in SlashQueryPaths
          /\ gitignore_patterns
                 \in PatternListsOver(SlashPatternPool, MaxPatterns - 1)
    /\ \E kind \in BOOLEAN :
          fs = (query_path :> kind) @@ [a \in AncestorsOf(query_path) |-> TRUE]
    /\ gitignore_file = NoGitignore
    /\ exclude_dirs = {}
    /\ exclude_files = {}
    /\ exclude_extensions = {}
    /\ use_gitignore = TRUE
    /\ walk_stack = <<>>
    /\ visited = {}
    /\ processed_paths = {}
    /\ verdict = FALSE
    /\ ProcIdle
    /\ content = ""
    /\ max_lines = -1
    /\ parts = <<>>
    /\ output_path = "out.txt"
    /\ started_output_path = output_path
    /\ written_files = <<>>

\* a call self._is_excluded_by_gitignore(rel_path)
QueryIgnore ==
    /\ pc = "query_ready"
    /\ verdict' = is_excluded_by_gitignore(query_path)
    /\ pc' = "query_done"
    /\ UNCHANGED <<confVars, walkVars, query_path, procVars, splitVars,
                   signals, run_button_enabled, guiVars>>

NextIgnore == QueryIgnore

SpecIgnore == InitIgnore /\ [][NextIgnore]_vars

(***************************************************************************)
(* SpecLoad: runs over .gitignore files with whitespace and comments       *)
(***************************************************************************)
\* the lines of the file as "for line in f" yields them, line break included
\* (the last line of a file may lack it)
LoadLinePool ==
    {"b\n", " b\n", "b \n", "\tb\r\n", "\n", " \n", "#b\n", " #b\n", "b#\n",
     "a.o"}

InitLoad ==
    /\ WalkStart
    /\ root_name = "proj"
    /\ fs \in { ("b" :> FALSE),
                ("b" :> TRUE) @@ ("b/a.o" :> FALSE) }
    /\ exclude_dirs = {}
    /\ exclude_files = {}
    /\ exclude_extensions = {}
    /\ use_gitignore \in BOOLEAN
    /\ gitignore_file \in
           {NoGitignore}
           \cup {[exists |-> TRUE, readable |-> r, lines |-> ls] :
                    r \in BOOLEAN,
                    ls \in PatternListsOver(LoadLinePool, MaxPatterns - 1)}

NextLoad == LoadGitignore \/ WalkDir \/ SortCollected

SpecLoad == InitLoad /\ [][NextLoad]_vars

(***************************************************************************)
(* ProcessWorker.run, second phase: structure summary and file records     *)
(***************************************************************************)
\* s * n
RECURSIVE Repeat(_, _)
Repeat(s, n) == IF n <= 0 THEN "" ELSE s \o Repeat(s, n - 1)

\* sep.join(list)
RECURSIVE JoinWith(_, _)
JoinWith(sep, strs) ==
    IF strs = <<>> THEN ""
    ELSE IF Len(strs) = 1 THEN strs[1]
    ELSE strs[1] \o sep \o JoinWith(sep, Tail(strs))

\* The two markers of a structure line (a folder and a page pictogram in the
\* source, each followed by a space).
DirIcon == "[D] "
FileIcon == "[F] "
StructureHeader == "Directory Structure:\n====================\n"
RecordSeparator == Repeat("=", 40)
Latin1Warning == "[Warning: File read as latin-1, may not be correct]\n"

MutStructureLineBareName(rel_path, is_dir) == basename(rel_path)

\* lines 284-295: the structure line of one collected item
StructureLine(rel_path, is_dir) ==
    LET indent == IF rel_path # "" /\ CountChar(rel_path, "/") = 0
                  THEN 0
                  ELSE CountChar(rel_path, "/")
        prefix == Repeat("  ", indent) \o (IF is_dir THEN DirIcon ELSE FileIcon)
    IN  prefix \o basename(rel_path)

\* lines 305-323: the content part of a file's record; d is what reading the
\* file yields: utf-8 text, latin-1 text after a utf-8 failure, or an error.
RecordContent(d) ==
    CASE d.kind = "utf8"   -> d.text
      [] d.kind = "latin1" -> Latin1Warning \o d.text
      [] d.kind = "error"  -> "[Error reading file: " \o d.text \o "]"

\* lines 318 and 323: the record of one file
FileRecord(rel_path, d) ==
    file_marker \o rel_path \o "\n\n" \o RecordContent(d) \o "\n\n"
        \o RecordSeparator \o "\n"

\* The collected trees the second phase is run on: sorted, without duplicate
\* paths, every entry's parent directory collected too.
ItemLists ==
    { <<>>,
      << <<"a", FALSE>> >>,
      << <<"a", FALSE>>, <<"b", FALSE>> >>,
      << <<"d", TRUE>>, <<"d/a", FALSE>> >>,
      << <<"a", FALSE>>, <<"d", TRUE>>, <<"d/b", FALSE>> >> }

FilePathsOf(items) == {items[k][1] : k \in {j \in 1..Len(items) : ~items[j][2]}}

\* What f.read() returns has its line ends translated to "\n".
ContentPieces == {file_marker, "x", "\n"}

RECURSIVE ContentsUpTo(_)
ContentsUpTo(n) ==
    IF n = 0 THEN {""}
    ELSE LET shorter == ContentsUpTo(n - 1)
         IN  shorter \cup {t \o p : t \in shorter, p \in ContentPieces}

ReadOutcomes ==
    [kind : {"utf8"}, text : ContentsUpTo(MaxContentPieces)]
    \cup [kind : {"latin1"}, text : ContentsUpTo(1)]
    \cup [kind : {"error"}, text : {"denied"}]

RecBudgets == 1..MaxRecBudget

InitRecords ==
    /\ pc = "processing"
    /\ ScanIdle
    /\ WorkerAlone(<<"progress_update", "progress_update">>)
    /\ collected_items \in ItemLists
    /\ file_data \in [FilePathsOf(collected_items) -> ReadOutcomes]
    /\ include_structure \in BOOLEAN
    /\ structure_only \in BOOLEAN
    /\ ~(include_structure /\ structure_only)   \* toggle_structure_options
    /\ item_idx = 0
    /\ structure_lines = <<>>
    /\ file_contents = <<>>
    /\ errors = <<>>
    /\ structure_summary = ""
    /\ combined_content = ""
    /\ content = ""
    /\ max_lines = -1
    /\ parts = <<>>
    /\ output_path = "out.txt"
    /\ started_output_path = output_path
    /\ written_files = <<>>

\* lines 299-303: every ProgressEvery-th file read is reported
ProgressEvery == 20
file_progress(item) ==
    IF ~item[2] /\ ~structure_only
           /\ (Len(file_contents) + 1) % ProgressEvery = 0
    THEN <<"progress_update">> ELSE <<>>

MutReadErrorAborts ==
    /\ pc = "processing"
    /\ item_idx < Len(collected_items)
    /\ LET rel_path == collected_items[item_idx + 1][1]
           is_dir   == collected_items[item_idx + 1][2]
           reads    == ~is_dir /\ ~structure_only
           fails    == reads /\ file_data[rel_path].kind = "error"
       IN  /\ structure_lines' =
                  IF include_structure \/ structure_only
                  THEN Append(structure_lines, StructureLine(rel_path, is_dir))
                  ELSE structure_lines
           /\ file_contents' =
                  IF reads /\ ~fails
                  THEN Append(file_contents,
                              FileRecord(rel_path, file_data[rel_path]))
                  ELSE file_contents
           /\ pc' = IF fails THEN "error" ELSE pc
    /\ signals' = signals \o file_progress(collected_items[item_idx + 1])
    /\ item_idx' = item_idx + 1
    /\ UNCHANGED <<errors, collected_items, file_data, include_structure,
                   structure_only, structure_summary, combined_content,
                   confVars, walkVars, queryVars, splitVars,
                   run_button_enabled, guiVars>>

\* lines 282-324: one iteration of "for rel_path, is_dir in collected_items"
ProcessItem ==
    /\ pc = "processing"
    /\ item_idx < Len(collected_items)
    /\ LET rel_path == collected_items[item_idx + 1][1]
           is_dir   == collected_items[item_idx + 1][2]
       IN  /\ structure_lines' =
                  IF include_structure \/ structure_only
                  THEN Append(structure_lines, StructureLine(rel_path, is_dir))
                  ELSE structure_lines
           /\ IF ~is_dir /\ ~structure_only
              THEN /\ file_contents' =
                          Append(file_contents,
                                 FileRecord(rel_path, file_data[rel_path]))
                   /\ errors' =
                          IF file_data[rel_path].kind = "error"
                          THEN Append(errors,
                                      "Error reading file " \o rel_path \o ": "
                                          \o file_data[rel_path].text)
                          ELSE errors
              ELSE UNCHANGED <<file_contents, errors>>
    /\ signals' = signals \o file_progress(collected_items[item_idx + 1])
    /\ item_idx' = item_idx + 1
    /\ UNCHANGED <<pc, collected_items, file_data, include_structure,
                   structure_only, structure_summary, combined_content,
                   confVars, walkVars, queryVars, splitVars,
                   run_button_enabled, guiVars>>

MutFinishIgnoresStructureOnly ==
    /\ pc = "processing"
    /\ item_idx = Len(collected_items)
    /\ structure_summary' =
           IF include_structure
           THEN StructureHeader \o JoinWith("\n", structure_lines) \o "\n\n"
           ELSE ""
    /\ combined_content' = Join(file_contents)
    /\ signals' = signals \o <<"progress_update", "finished">>
    /\ pc' = "finished"
    /\ UNCHANGED <<collected_items, file_data, include_structure,
                   structure_only, item_idx, structure_lines, file_contents,
                   errors, confVars, walkVars, queryVars, splitVars,
                   run_button_enabled, guiVars>>

\* lines 326-334: the loop is over, the finished signal carries the result
FinishRun ==
    /\ pc = "processing"
    /\ item_idx = Len(collected_items)
    /\ structure_summary' =
           IF include_structure \/ structure_only
           THEN StructureHeader \o JoinWith("\n", structure_lines) \o "\n\n"
           ELSE ""
    /\ combined_content' = IF ~structure_only THEN Join(file_contents) ELSE ""
    /\ signals' = signals \o <<"progress_update", "finished">>
    /\ pc' = "finished"
    /\ UNCHANGED <<collected_items, file_data, include_structure,
                   structure_only, item_idx, structure_lines, file_contents,
                   errors, confVars, walkVars, queryVars, splitVars,
                   run_button_enabled, guiVars>>

\* str(i) of a natural number
Digits == "0123456789"
RECURSIVE IntToStr(_)
IntToStr(i) ==
    IF i < 10 THEN CharAt(Digits, i + 1)
    ELSE IntToStr(i \div 10) \o CharAt(Digits, (i % 10) + 1)

\* os.path.dirname on a forward-slash path
dirname(path) ==
    LET head == SubSeq(path, 1, LastSlash(path, Len(path)))
    IN  IF head # "" /\ RStripSlash(head) # "" THEN RStripSlash(head) ELSE head

\* os.path.join(output_dir, name) for a name that does not start with "/"
os_path_join(dir, name) ==
    IF dir = "" \/ CharAt(dir, Len(dir)) = "/" THEN dir \o name
    ELSE dir \o "/" \o name

\* lines 2187-2194: the output path with its extension (".txt" when the entry
\* has none), the path without the extension, and the directory
OutputTarget(out) ==
    LET ext0      == splitext_ext(basename(out))
        extension == IF ext0 = "" THEN ".txt" ELSE ext0
        path      == IF ext0 = "" THEN out \o extension ELSE out
    IN  [output_path |-> path,
         extension   |-> extension,
         base_name   |-> SubSeq(path, 1, Len(path) - Len(extension)),
         output_dir  |-> dirname(path)]

\* lines 2220-2226: the path of the i-th chunk file
ChunkPath(t, only, i) ==
    os_path_join(t.output_dir,
                 basename(t.base_name)
                     \o (IF only THEN "-structure-PART-" ELSE "-PART-")
                     \o IntToStr(i) \o t.extension)

\* lines 2232-2239: the path the single-file output is written to
SingleFilePath(t, only) ==
    IF only THEN t.base_name \o "-structure" \o t.extension ELSE t.output_path

\* lines 2203-2239: the paths of the files written, in order
WrittenPaths(t, is_chunked, only, chunks) ==
    IF is_chunked
    THEN IF Len(chunks) = 0 THEN <<>>
         ELSE IF Len(chunks) = 1 THEN <<t.output_path>>
         ELSE [i \in 1..Len(chunks) |-> ChunkPath(t, only, i)]
    ELSE <<SingleFilePath(t, only)>>

\* handle_results (lines 2172-2242): the text to write, its split when the
\* chunked output is selected, and the files written; is_chunked and the
\* budget are read from the UI when the handler runs.
HandleResults ==
    /\ pc = "finished"
    /\ \E is_chunked \in BOOLEAN, budget \in RecBudgets :
          LET full_content_to_write == structure_summary \o combined_content
              t == OutputTarget(output_path)
              chunks == IF is_chunked
                        THEN split_content_smart(full_content_to_write, budget)
                        ELSE <<>>
          IN  /\ content' = full_content_to_write
              /\ max_lines' = IF is_chunked THEN budget ELSE -1
              /\ IF IsBlank(full_content_to_write) /\ ~structure_only
                 THEN /\ parts' = <<>>
                      /\ written_files' = <<>>
                      /\ pc' = "no_content"
                 ELSE /\ parts' = chunks
                      /\ written_files' =
                             WrittenPaths(t, is_chunked, structure_only, chunks)
                      /\ pc' = IF is_chunked THEN "saved_chunked"
                               ELSE "saved_single"
    /\ run_button_enabled' = TRUE     \* line 2155, the slot connected next
    /\ UNCHANGED <<output_path, confVars, walkVars, queryVars, procVars,
                   signals, guiVars>>

NextRecords == ProcessItem \/ FinishRun \/ HandleResults

SpecRecords == InitRecords /\ [][NextRecords]_vars

(***************************************************************************)
(* SpecSave: the second phase and the saving, for several output paths     *)
(***************************************************************************)
\* texts of the output entry: with and without an extension, with and
\* without a directory, with a "." in the directory only
OutputPaths == {"out.txt", "out", "d/out.md", "d.v/out"}

\* collected trees with an entry whose name starts like a marker line
MarkerNameLists ==
    { << <<">>>File: x", FALSE>>, <<"a", FALSE>> >>,
      << <<">>>File: ", TRUE>>, <<">>>File: />>>File: x", FALSE>> >> }

InitSave ==
    /\ pc = "processing"
    /\ ScanIdle
    /\ WorkerAlone(<<"progress_update", "progress_update">>)
    /\ collected_items \in ItemLists \cup MarkerNameLists
    /\ file_data = [q \in FilePathsOf(collected_items) |->
                        [kind |-> "utf8", text |-> "x"]]
    /\ include_structure \in BOOLEAN
    /\ structure_only \in BOOLEAN
    /\ ~(include_structure /\ structure_only)   \* toggle_structure_options
    /\ item_idx = 0
    /\ structure_lines = <<>>
    /\ file_contents = <<>>
    /\ errors = <<>>
    /\ structure_summary = ""
    /\ combined_content = ""
    /\ content = ""
    /\ max_lines = -1
    /\ parts = <<>>
    /\ output_path \in OutputPaths
    /\ started_output_path = output_path
    /\ written_files = <<>>

NextSave == ProcessItem \/ FinishRun \/ HandleResults

SpecSave == InitSave /\ [][NextSave]_vars

(***************************************************************************)
(* SpecPipeline: a whole run, from the scan to the files written           *)
(***************************************************************************)
\* lines 16-35: the default exclusion lists (the worker keeps each as a set)
DEFAULT_EXCLUDE_DIRS ==
    {".git", "node_modules", "venv", "__pycache__", "build", "dist", ".svn",
     "env", ".idea", ".vscode", "target", "out"}
DEFAULT_EXCLUDE_FILES ==
    {"package-lock.json", "yarn.lock", "*.pyc", "*.pyo", "*.exe", "*.dll",
     "*.so", "*.dylib", "*.o", "*.a", "*.class", "*.jar"}
DEFAULT_EXCLUDE_EXTENSIONS ==
    {".jpg", ".jpeg", ".png", ".gif", ".bmp", ".svg", ".ico", ".tif", ".tiff",
     ".mp4", ".avi", ".mov", ".wmv", ".flv", ".mkv",
     ".mp3", ".wav", ".ogg", ".aac", ".flac",
     ".ttf", ".otf", ".woff", ".woff2", ".eot",
     ".zip", ".rar", ".tar", ".gz", ".7z", ".bz2", ".iso",
     ".pdf", ".doc", ".docx", ".xls", ".xlsx", ".ppt", ".pptx", ".odt",
     ".ods", ".odp",
     ".db", ".sqlite", ".sqlite3", ".log", ".tmp", ".bak", ".swp",
     ".bin", ".dat", ".cache", ".img", ".dmg", ".pkl", ".joblib"}

\* a root holding exactly the files a/x.py, a/b/y.log and node_modules/z.js
DefaultTree ==
    ("a" :> TRUE) @@ ("a/x.py" :> FALSE) @@ ("a/b" :> TRUE)
    @@ ("a/b/y.log" :> FALSE) @@ ("node_modules" :> TRUE)
    @@ ("node_modules/z.js" :> FALSE)

\* names of the entries of the scanned trees: "B" < "a" < "a.o" < "a/..." in
\* code-point order
PipeNames == {"a", "B", "a.o"}

RECURSIVE TreesOver(_, _)
TreesOver(names, n) ==
    IF n = 0 THEN {<<>>}
    ELSE LET smaller == TreesOver(names, n - 1)
         IN  smaller \cup
             UNION { { (JoinPath(pn[1], pn[2]) :> kind) @@ t :
                         pn \in {x \in ({""} \cup {d \in DOMAIN t : t[d]})
                                        \X names :
                                    JoinPath(x[1], x[2]) \notin DOMAIN t},
                         kind \in BOOLEAN }
                     : t \in smaller }

PipeRuleLists ==
    { [dirs |-> {},    files |-> {}, exts |-> {}],
      [dirs |-> {"B"}, files |-> {}, exts |-> {".o"}] }

PipeGitignoreFiles ==
    {NoGitignore, [exists |-> TRUE, readable |-> TRUE, lines |-> <<"a">>]}

\* the files a scan can list, the root's .gitignore included
FilesOf(tree, file) ==
    {q \in DOMAIN tree : ~tree[q]}
        \cup (IF file.exists THEN {".gitignore"} ELSE {})

PipeReadOutcomes ==
    {[kind |-> "utf8", text |-> "x"], [kind |-> "error", text |-> "denied"]}

\* nothing has run yet: run_analysis has built the worker
\* a directory with a file inside, next to a file whose name continues the
\* directory's name with a character that sorts before "/"
SiblingTree ==
    ("a" :> TRUE) @@ ("a/B" :> FALSE) @@ ("a.o" :> FALSE)

PipelineStart ==
    /\ pc = "start"
    /\ WorkerAlone(<<>>)
    /\ root_name = "proj"
    /\ gitignore_patterns = <<>>
    /\ walk_stack = <<>>
    /\ visited = {}
    /\ processed_paths = {}
    /\ query_path = ""
    /\ verdict = FALSE
    /\ collected_items = <<>>
    /\ include_structure \in BOOLEAN
    /\ structure_only \in BOOLEAN
    /\ ~(include_structure /\ structure_only)   \* toggle_structure_options
    /\ item_idx = 0
    /\ structure_lines = <<>>
    /\ file_contents = <<>>
    /\ errors = <<>>
    /\ structure_summary = ""
    /\ combined_content = ""
    /\ content = ""
    /\ max_lines = -1
    /\ parts = <<>>
    /\ output_path = "out.txt"
    /\ started_output_path = output_path
    /\ written_files = <<>>

InitPipeline ==
    /\ PipelineStart
    /\ \/ /\ fs \in TreesOver(PipeNames, MaxPipeNodes)
          /\ \E r \in PipeRuleLists :
                /\ exclude_dirs = r.dirs
                /\ exclude_files = r.files
                /\ exclude_extensions = r.exts
          /\ use_gitignore = TRUE
          /\ gitignore_file \in PipeGitignoreFiles
          /\ gitignore_file.exists => exclude_dirs = {}
          /\ file_data \in [FilesOf(fs, gitignore_file) -> PipeReadOutcomes]
          /\ Cardinality({q \in DOMAIN file_data :
                              file_data[q].kind = "error"}) <= 1
       \/ /\ fs = DefaultTree
          /\ exclude_dirs = DEFAULT_EXCLUDE_DIRS
          /\ exclude_files = DEFAULT_EXCLUDE_FILES
          /\ exclude_extensions = DEFAULT_EXCLUDE_EXTENSIONS
          /\ use_gitignore \in BOOLEAN
          /\ gitignore_file = NoGitignore
          /\ file_data = [q \in FilesOf(fs, gitignore_file) |->
                              [kind |-> "utf8", text |-> "x"]]
       \/ /\ fs = SiblingTree
          /\ \E r \in PipeRuleLists :
                /\ exclude_dirs = r.dirs
                /\ exclude_files = r.files
                /\ exclude_extensions = r.exts
          /\ use_gitignore = FALSE
          /\ gitignore_file = NoGitignore
          /\ file_data = [q \in FilesOf(fs, gitignore_file) |->
                              [kind |-> "utf8", text |-> "x"]]

NextPipeline ==
    \/ LoadGitignore
    \/ WalkDir
    \/ SortCollected
    \/ ProcessItem
    \/ FinishRun
    \/ HandleResults

SpecPipeline == InitPipeline /\ [][NextPipeline]_vars

(***************************************************************************)
(* CodeBaseAnalyzer: the window, its run button and its worker thread      *)
(***************************************************************************)
\* texts of the output entry; the directory "d" exists, "x" does not
OutputEntries == {"out.txt", "", "d/out.md", "x/out.txt"}
ExistingOutputDirs == {"d"}

\* texts of the directory entry; "proj" is a directory
DirectoryEntries == {"proj", ""}

\* lines 2116-2126: the checks run_analysis makes before anything else
InputsValid ==
    /\ directory_entry # ""
    /\ output_path # ""
    /\ \/ dirname(output_path) = ""
       \/ dirname(output_path) \in ExistingOutputDirs

MutNeverBusy == FALSE

\* line 2129: self.worker and self.worker.isRunning()
WorkerBusy == worker_running > 0

\* the trees the window's runs scan
AppTrees ==
    { ("a" :> FALSE),
      ("b" :> TRUE) @@ ("b/a" :> FALSE) }

InitApp ==
    /\ pc = "idle"
    /\ signals = <<>>
    /\ worker_running = 0
    /\ workers_started = 0
    /\ run_button_enabled = TRUE
    /\ run_outcomes = <<>>
    /\ directory_entry = "proj"
    /\ started_output_path = ""
    /\ root_name = "proj"
    /\ fs \in AppTrees
    /\ gitignore_file = NoGitignore
    /\ exclude_dirs = {}
    /\ exclude_files = {}
    /\ exclude_extensions = {}
    /\ use_gitignore \in BOOLEAN
    /\ gitignore_patterns = <<>>
    /\ walk_stack = <<>>
    /\ visited = {}
    /\ processed_paths = {}
    /\ query_path = ""
    /\ verdict = FALSE
    /\ collected_items = <<>>
    /\ file_data = [q \in FilesOf(fs, gitignore_file) |->
                        [kind |-> "utf8", text |-> "x"]]
    /\ include_structure = TRUE
    /\ structure_only = FALSE
    /\ item_idx = 0
    /\ structure_lines = <<>>
    /\ file_contents = <<>>
    /\ errors = <<>>
    /\ structure_summary = ""
    /\ combined_content = ""
    /\ content = ""
    /\ max_lines = -1
    /\ parts = <<>>
    /\ output_path = "out.txt"
    /\ written_files = <<>>

\* the user types into the output entry
EditOutput ==
    /\ pc # "closed"
    /\ \E text \in OutputEntries \ {output_path} : output_path' = text
    /\ UNCHANGED <<pc, confVars, walkVars, queryVars, procVars, content,
                   max_lines, parts, written_files, signals,
                   run_button_enabled, guiVars>>

\* the user types into the directory entry
EditDirectory ==
    /\ pc # "closed"
    /\ \E text \in DirectoryEntries \ {directory_entry} :
          directory_entry' = text
    /\ UNCHANGED <<pc, confVars, walkVars, queryVars, procVars, splitVars,
                   signals, run_button_enabled, worker_running,
                   workers_started, run_outcomes, started_output_path>>

\* run_analysis (lines 2112-2157), the slot of the run button's click: the
\* validation, the busy check, then a new worker is created and started
RunAnalysis ==
    /\ pc # "closed"
    /\ run_button_enabled
    /\ Len(run_outcomes) < MaxRuns
    /\ IF ~InputsValid \/ WorkerBusy
       THEN /\ run_outcomes' =
                   Append(run_outcomes,
                          IF ~InputsValid THEN "Input Error" ELSE "Busy")
            /\ UNCHANGED <<pc, confVars, walkVars, queryVars, procVars,
                           splitVars, signals, run_button_enabled,
                           worker_running, workers_started, directory_entry,
                           started_output_path>>
       ELSE /\ run_outcomes' = Append(run_outcomes, "started")
            /\ run_button_enabled' = FALSE
            /\ workers_started' = workers_started + 1
            /\ worker_running' = worker_running + 1
            /\ started_output_path' = output_path
            /\ root_name' = directory_entry
            /\ pc' = "start"
            /\ signals' = <<>>
            /\ gitignore_patterns' = <<>>
            /\ walk_stack' = <<>>
            /\ visited' = {}
            /\ processed_paths' = {}
            /\ collected_items' = <<>>
            /\ item_idx' = 0
            /\ structure_lines' = <<>>
            /\ file_contents' = <<>>
            /\ errors' = <<>>
            /\ structure_summary' = ""
            /\ combined_content' = ""
            /\ content' = ""
            /\ max_lines' = -1
            /\ parts' = <<>>
            /\ written_files' = <<>>
            /\ UNCHANGED <<fs, gitignore_file, exclude_dirs, exclude_files,
                           exclude_extensions, use_gitignore, queryVars,
                           file_data, include_structure, structure_only,
                           output_path, directory_entry>>

MutRaiseSwallowed ==
    /\ pc \in {"start", "walking", "processing"}
    /\ pc' = "error"
    /\ UNCHANGED <<confVars, walkVars, queryVars, procVars, splitVars,
                   signals, run_button_enabled, guiVars>>

\* lines 336-338: an exception raised anywhere in the try block of run
\* outside the per-file handler ends the run with the error signal
WorkerRaises ==
    /\ pc \in {"start", "walking", "processing"}
    /\ signals' = Append(signals, "error")
    /\ pc' = "error"
    /\ UNCHANGED <<confVars, walkVars, queryVars, procVars, splitVars,
                   run_button_enabled, guiVars>>

\* run() has returned after its terminal signal: the thread is over
WorkerExits ==
    /\ pc \notin {"idle", "start", "walking", "processing", "closed"}
    /\ worker_running > 0
    /\ worker_running' = worker_running - 1
    /\ UNCHANGED <<pc, confVars, walkVars, queryVars, procVars, splitVars,
                   signals, run_button_enabled, workers_started, run_outcomes,
                   directory_entry, started_output_path>>

\* handle_error (lines 2162-2170) and the slot connected at line 2156
HandleError ==
    /\ pc = "error"
    /\ pc' = "error_shown"
    /\ run_button_enabled' = TRUE
    /\ UNCHANGED <<confVars, walkVars, queryVars, procVars, splitVars,
                   signals, guiVars>>

\* closeEvent (lines 2330-2346) accepted: a running worker is terminated
CloseEvent ==
    /\ pc # "closed"
    /\ pc' = "closed"
    /\ worker_running' = 0
    /\ UNCHANGED <<confVars, walkVars, queryVars, procVars, splitVars,
                   signals, run_button_enabled, workers_started, run_outcomes,
                   directory_entry, started_output_path>>

\* a step of the worker thread
WorkerStep ==
    \/ LoadGitignore
    \/ WalkDir
    \/ SortCollected
    \/ ProcessItem
    \/ FinishRun

NextApp ==
    \/ EditOutput
    \/ EditDirectory
    \/ RunAnalysis
    \/ LoadGitignore
    \/ WalkDir
    \/ SortCollected
    \/ ProcessItem
    \/ FinishRun
    \/ WorkerRaises
    \/ WorkerExits
    \/ HandleResults
    \/ HandleError
    \/ CloseEvent

SpecApp == InitApp /\ [][NextApp]_vars

\* the worker thread keeps running while it has a step to take
SpecAppFair == SpecApp /\ WF_vars(WorkerStep)

(***************************************************************************)
(* Properties of the splitter                                              *)
(***************************************************************************)
LineCount(text) == Len(splitlines(text))

IsMarkerLine(line) == startswith(line, file_marker)

\* the indices (1-based) of the marker lines of a text
MarkerLinesOf(text) ==
    LET ls == splitlines(text) IN {k \in 1..Len(ls) : IsMarkerLine(ls[k])}

EndsWithLineBreak(text) ==
    text # "" /\ CharAt(text, Len(text)) \in LineBreaks

\* the part consists of exactly one block: it is not empty and no line after
\* its first one is a marker line
IsOneBlock(part) == part # "" /\ MarkerLinesOf(part) \subseteq {1}

\* C1: once split_content_smart has returned, the concatenation of the parts,
\* in order, is exactly the input text, for every text and every budget >= 1.
C1_Lossless == pc = "split_done" => Join(parts) = content

\* C1 witness: a text with a leading summary and file blocks was split into
\* several parts.
C1_Witness ==
    /\ pc = "split_done"
    /\ Len(parts) >= 3
    /\ ~startswith(content, file_marker)
    /\ Cardinality(MarkerLinesOf(content)) >= 2

\* C3: every block lies inside a single part: the parts concatenate to the
\* input, and every boundary between two parts is the start of a marker line
\* (the part before it ends with a line terminator, the part after it starts
\* with the file marker), also when a block alone is over the budget.
C3_BlocksWhole ==
    pc = "split_done" =>
        /\ Join(parts) = content
        /\ \A k \in 1..Len(parts) :
              /\ parts[k] # ""
              /\ k > 1 => IsMarkerLine(parts[k])
              /\ k < Len(parts) => EndsWithLineBreak(parts[k])

\* C3 witness: a block with more lines than the budget, between other blocks.
C3_Witness ==
    /\ pc = "split_done"
    /\ \E k \in 2..(Len(parts) - 1) :
          /\ LineCount(parts[k]) > max_lines
          /\ IsOneBlock(parts[k])

\* C4: every part has at most max_lines lines or consists of exactly one
\* block (so a block over the budget is a part of its own).
C4_OverBudgetIsOneBlock ==
    pc = "split_done" =>
        \A k \in 1..Len(parts) :
            LineCount(parts[k]) <= max_lines \/ IsOneBlock(parts[k])

\* C4 witness: an over-budget block that follows a pending part and is
\* followed by another block.
C4_Witness ==
    /\ pc = "split_done"
    /\ Len(parts) >= 3
    /\ LineCount(parts[1]) <= max_lines
    /\ LineCount(parts[2]) > max_lines
    /\ IsMarkerLine(parts[3])

\* C5 as stated: every part with more than max_lines lines starts with a
\* marker line and contains exactly one marker line.
C5_Original ==
    pc = "split_done" =>
        \A k \in 1..Len(parts) :
            LineCount(parts[k]) > max_lines =>
                MarkerLinesOf(parts[k]) = {1}

\* C5 amended: every part with more than max_lines lines is one single block:
\* either one file block (it starts with a marker line and has no other
\* marker line) or the text before the first marker (it is the first part,
\* has no marker line, and every marker line of the input comes after it).
C5_OverBudgetIsOneBlockOrSummary ==
    pc = "split_done" =>
        \A k \in 1..Len(parts) :
            LineCount(parts[k]) > max_lines =>
                \/ MarkerLinesOf(parts[k]) = {1}
                \/ /\ k = 1
                   /\ MarkerLinesOf(parts[k]) = {}
                   /\ \A m \in MarkerLinesOf(content) :
                          m > LineCount(parts[1])

\* C5 witness: both kinds of over-budget part in one result.
C5_Witness ==
    /\ pc = "split_done"
    /\ Len(parts) >= 2
    /\ LineCount(parts[1]) > max_lines
    /\ MarkerLinesOf(parts[1]) = {}
    /\ LineCount(parts[2]) > max_lines
    /\ MarkerLinesOf(parts[2]) = {1}

(***************************************************************************)
(* Properties of the file records in the split                             *)
(***************************************************************************)
RECURSIVE SumLen(_, _)
SumLen(strs, n) == IF n = 0 THEN 0 ELSE Len(strs[n]) + SumLen(strs, n - 1)

\* offsets in full_content_to_write: record j spans RecordStart(j)..RecordEnd(j)
RecordStart(j) == Len(structure_summary) + SumLen(file_contents, j - 1)
RecordEnd(j) == RecordStart(j) + Len(file_contents[j])
\* the boundary between part k and part k + 1
PartEnd(k) == SumLen(parts, k)

SplitInsideRecord(j) ==
    \E k \in 1..(Len(parts) - 1) :
        RecordStart(j) < PartEnd(k) /\ PartEnd(k) < RecordEnd(j)

\* C2: for the text the worker builds from its file records, whatever the
\* files contain, no boundary between two parts falls strictly inside a file
\* record, unless the record alone has more than max_lines lines.
C2_NoSplitInsideRecord ==
    pc = "saved_chunked" =>
        \A j \in 1..Len(file_contents) :
            LineCount(file_contents[j]) <= max_lines => ~SplitInsideRecord(j)

(***************************************************************************)
(* Properties of the collected tree                                        *)
(***************************************************************************)
CollectedPaths == {collected_items[k][1] : k \in 1..Len(collected_items)}

\* every entry of the scanned tree, the root's .gitignore included
AllEntries ==
    DOMAIN fs \cup (IF gitignore_file.exists THEN {".gitignore"} ELSE {})

\* the directories of the scanned tree, the root ("") included
AllDirs == {""} \cup {d \in DOMAIN fs : fs[d]}

DirBaseName(d) == IF d = "" THEN root_name ELSE basename(d)

\* entry path lies below directory d
IsBelow(path, d) == d = "" \/ startswith(path, d \o "/")

\* directory d is pruned: not collected, not traversed, nothing below it
\* collected
Pruned(d) ==
    /\ d \notin CollectedPaths
    /\ d \notin visited
    /\ \A p \in CollectedPaths : ~IsBelow(p, d)

\* C6 as stated: every directory whose base name is in exclude_dirs, the
\* scanned root included, is pruned with everything below it.
C6_Original ==
    \A d \in AllDirs : DirBaseName(d) \in exclude_dirs => Pruned(d)

\* C6 amended: every directory below the scanned root whose base name is in
\* exclude_dirs is never collected and never traversed, and no entry below it
\* is ever collected, whatever the names of those entries.
C6_NamedDirsPruned ==
    \A d \in AllDirs \ {""} : basename(d) \in exclude_dirs => Pruned(d)

\* C6 witness: the scan is over, and a directory excluded by name holds a
\* subdirectory with an entry of its own, none of which is excluded itself.
C6_Witness ==
    /\ pc = "processing"
    /\ collected_items # <<>>
    /\ \E d \in AllDirs \ {""} :
          /\ basename(d) \in exclude_dirs
          /\ ParentOf(d) \in visited
          /\ \E p, q \in DOMAIN fs :
                /\ ParentOf(p) = d /\ ParentOf(q) = p
                /\ ~is_excluded(p) /\ ~is_excluded(q)

\* C7: after the scan an entry is collected if and only if neither the entry
\* nor any directory above it (below the root) is excluded by _is_excluded;
\* it is collected as what it is, and with its parent directory.
C7_CollectedIffNothingExcluded ==
    pc = "processing" =>
        /\ \A p \in AllEntries :
              p \in CollectedPaths <=>
                  /\ ~is_excluded(p)
                  /\ \A a \in AncestorsOf(p) : ~is_excluded(a)
        /\ \A k \in 1..Len(collected_items) :
              /\ collected_items[k][1] \in AllEntries
              /\ collected_items[k][2] = isdir(collected_items[k][1])
              /\ ParentOf(collected_items[k][1]) # "" =>
                     \E m \in 1..Len(collected_items) :
                         collected_items[m] =
                             <<ParentOf(collected_items[k][1]), TRUE>>

\* C7 witness: the scan is over; one entry is collected two levels down, one
\* entry that is not excluded itself is missing because its parent is excluded.
C7_Witness ==
    /\ pc = "processing"
    /\ \E p \in CollectedPaths : ParentOf(p) # ""
    /\ \E q \in AllEntries :
          /\ ~is_excluded(q)
          /\ is_excluded(ParentOf(q))
          /\ q \notin CollectedPaths

\* steps 1 to 3 of the decision: the explicit lists
ExcludedByLists(path) ==
    \/ (isdir(path) /\ basename(path) \in exclude_dirs)
    \/ (~isdir(path) /\ FileNameExcluded(basename(path)))
    \/ (~isdir(path) /\ ExtensionExcluded(basename(path)))

\* C9: an entry the explicit lists exclude is never collected, whatever the
\* ignore patterns (a negated pattern matching it first changes nothing); an
\* entry the lists do not exclude, in a traversed directory, is missing from
\* the collected tree exactly when use_gitignore is set and the ignore
\* patterns exclude it.
C9_ListsBeforeIgnoreFile ==
    /\ \A p \in AllEntries : ExcludedByLists(p) => p \notin CollectedPaths
    /\ pc = "processing" =>
          \A p \in AllEntries :
              (~ExcludedByLists(p) /\ ParentOf(p) \in visited) =>
                  (p \notin CollectedPaths <=>
                      (use_gitignore /\ is_excluded_by_gitignore(p)))

\* C9 witness: the scan is over; a file and a directory excluded by the lists
\* are each matched first by a negated ignore pattern.
C9_Witness ==
    /\ pc = "processing"
    /\ use_gitignore
    /\ \E p \in AllEntries :
          /\ ~isdir(p) /\ ExcludedByLists(p) /\ NegatedFirstMatch(p)
          /\ ParentOf(p) \in visited
    /\ \E d \in AllEntries :
          /\ isdir(d) /\ ExcludedByLists(d) /\ NegatedFirstMatch(d)
          /\ ParentOf(d) \in visited

\* the run of the example: ignore patterns "build/", "!build/keep.txt" loaded,
\* and the files build/tmp.o and build/keep.txt in the tree
BuildCase ==
    /\ use_gitignore
    /\ gitignore_patterns = BuildIgnoreLines
    /\ {"build", "build/tmp.o", "build/keep.txt"} \subseteq DOMAIN fs
    /\ fs["build"] /\ ~fs["build/tmp.o"] /\ ~fs["build/keep.txt"]

\* C10: with the ignore patterns "build/", "!build/keep.txt", neither
\* build/tmp.o nor build/keep.txt is ever collected.
C10_BuildFilesAbsent ==
    BuildCase =>
        /\ "build/tmp.o" \notin CollectedPaths
        /\ "build/keep.txt" \notin CollectedPaths

\* C10 witness: the scan of such a tree is over, "build" is not in
\* exclude_dirs and no explicit list excludes the two files.
C10_Witness ==
    /\ pc = "processing"
    /\ BuildCase
    /\ exclude_dirs = {} /\ exclude_files = {} /\ exclude_extensions = {}
    /\ "build" \notin CollectedPaths
    /\ collected_items # <<>>

(***************************************************************************)
(* Properties of the ignore evaluation                                     *)
(***************************************************************************)
\* the patterns (by position) that match the queried path
MatchingPatterns ==
    {k \in 1..Len(gitignore_patterns) :
        PatternMatches(gitignore_patterns[k], query_path, isdir(query_path))}

Scanned == pc \notin {"start", "walking"}

\* the worker has emitted its result
Finished == pc \in {"finished", "no_content", "saved_chunked", "saved_single"}

CollectedSet == {collected_items[k] : k \in 1..Len(collected_items)}

\* the run of the example: default lists, no ignore file, the three files
DefaultCase ==
    /\ fs = DefaultTree
    /\ exclude_dirs = DEFAULT_EXCLUDE_DIRS
    /\ exclude_files = DEFAULT_EXCLUDE_FILES
    /\ exclude_extensions = DEFAULT_EXCLUDE_EXTENSIONS
    /\ ~gitignore_file.exists

\* C11 as stated: in the example the collected tree is exactly a (dir),
\* a/x.py, a/b (dir) and a/b/y.log.
C11_Original ==
    (Scanned /\ DefaultCase) =>
        CollectedSet = {<<"a", TRUE>>, <<"a/x.py", FALSE>>, <<"a/b", TRUE>>,
                        <<"a/b/y.log", FALSE>>}

\* C11 amended: in the example the collected tree is exactly a (dir), a/b
\* (dir) and a/x.py, in this order: node_modules is pruned with its content
\* and a/b/y.log is excluded by its extension .log.
C11_DefaultTreeCollected ==
    (Scanned /\ DefaultCase) =>
        collected_items = << <<"a", TRUE>>, <<"a/b", TRUE>>, <<"a/x.py", FALSE>> >>

\* C11 witness: the scan of the example is over and both a and a/b, the
\* directory of y.log, were traversed, node_modules was not.
C11_Witness ==
    /\ pc = "processing"
    /\ DefaultCase
    /\ {"a", "a/b"} \subseteq visited
    /\ "node_modules" \notin visited

\* the records of the files among the first n collected items, in order
RECURSIVE RecordsOf(_, _)
RecordsOf(items, n) ==
    IF n = 0 THEN <<>>
    ELSE RecordsOf(items, n - 1)
         \o (IF items[n][2] THEN <<>>
             ELSE <<FileRecord(items[n][1], file_data[items[n][1]])>>)

\* C12: once sorted, the collected entries are strictly ascending in the
\* code-point order of their relative paths (so no path occurs twice); the
\* structure lines are those of the entries processed so far, in that order,
\* and the file records are those of the files among them, in that order.
C12_OneOrder ==
    Scanned =>
        /\ \A k \in 1..(Len(collected_items) - 1) :
              StrLess(collected_items[k][1], collected_items[k + 1][1])
        /\ (include_structure \/ structure_only) =>
              structure_lines =
                  [k \in 1..item_idx |->
                      StructureLine(collected_items[k][1], collected_items[k][2])]
        /\ ~structure_only => file_contents = RecordsOf(collected_items, item_idx)

\* C12 witness: a finished run with a structure line per entry, in which an
\* upper-case name precedes a lower-case one and two file records were emitted.
C12_Witness ==
    /\ pc = "finished"
    /\ Len(file_contents) >= 2
    /\ Len(structure_lines) = Len(collected_items)
    /\ \E k \in 1..(Len(collected_items) - 1) :
          /\ collected_items[k][1] = "B"
          /\ collected_items[k + 1][1] = "a"

\* one fixed enumeration order of a set of names
RECURSIVE FixedOrder(_)
FixedOrder(S) ==
    IF S = {} THEN <<>>
    ELSE LET x == CHOOSE y \in S : TRUE IN <<x>> \o FixedOrder(S \ {x})

\* lines 213-270 with every directory listed in its fixed order: the value
\* of (collected_items, processed_paths) after the walk
RECURSIVE RefWalk(_, _)
RefWalk(stack, st) ==
    IF stack = <<>> THEN st
    ELSE LET rel_root == Head(stack)
             kept == final_dirs(rel_root, FixedOrder(SubdirNames(rel_root)))
             st1  == CollectDirs(rel_root, kept, st)
             st2  == CollectFiles(rel_root, FixedOrder(FileNames(rel_root)), st1)
         IN  RefWalk([k \in 1..Len(kept) |-> JoinPath(rel_root, kept[k])]
                         \o Tail(stack), st2)

\* the summary and the combined records a run emits for a collected tree
SummaryOf(items) ==
    IF include_structure \/ structure_only
    THEN StructureHeader
         \o JoinWith("\n", [k \in 1..Len(items) |->
                               StructureLine(items[k][1], items[k][2])])
         \o "\n\n"
    ELSE ""
CombinedOf(items) ==
    IF structure_only THEN "" ELSE Join(RecordsOf(items, Len(items)))

\* the collected tree of the run that lists every directory in its fixed order
RefItems == SortItems(RefWalk(<<"">>, [items |-> <<>>, seen |-> {}]).items)

\* a directory of the tree lists at least two subdirectories or two files
OrderMatters ==
    \E d \in visited :
        Cardinality(SubdirNames(d)) >= 2 \/ Cardinality(FileNames(d)) >= 2

\* C13: whatever the order in which the walk lists the entries of each
\* directory, the sorted collected tree, the structure summary, the combined
\* file records and the parts are those of the run that lists every directory
\* in one fixed order.
C13_OrderIndependent ==
    Scanned =>
        LET ref == RefItems
        IN  /\ collected_items = ref
            /\ Finished =>
                  /\ structure_summary = SummaryOf(ref)
                  /\ combined_content = CombinedOf(ref)
            /\ pc = "saved_chunked" =>
                  parts = split_content_smart(SummaryOf(ref) \o CombinedOf(ref),
                                              max_lines)

\* C13 witness: a chunked run over a tree in which a directory lists two
\* entries of a kind, with two file records and two parts.
C13_Witness ==
    /\ pc = "saved_chunked"
    /\ OrderMatters
    /\ Len(file_contents) >= 2
    /\ Len(parts) >= 2

\* the summary of the collected tree, whatever the flags
SummaryOfCollected ==
    StructureHeader
    \o JoinWith("\n", [k \in 1..Len(collected_items) |->
                          StructureLine(collected_items[k][1],
                                        collected_items[k][2])])
    \o "\n\n"

\* C15: a structure-only run collects the tree of the same scan (the one of
\* the fixed-order run, which does not read the flag), reads no file and
\* reports no error: no file record, empty combined content, empty error
\* list; its summary is the summary of the collected tree, which is also the
\* summary of a run with structure-only off and include-structure on.
C15_StructureOnly ==
    /\ (Scanned /\ structure_only) =>
          /\ collected_items = RefItems
          /\ file_contents = <<>>
          /\ errors = <<>>
    /\ (Finished /\ structure_only) =>
          /\ combined_content = ""
          /\ structure_summary = SummaryOfCollected
    /\ (Finished /\ ~structure_only /\ include_structure) =>
          structure_summary = SummaryOfCollected

\* C15 witness: a finished structure-only run, include-structure off, over a
\* collected tree with a file that cannot be read.
C15_Witness ==
    /\ pc = "finished"
    /\ structure_only /\ ~include_structure
    /\ \E k \in 1..Len(collected_items) :
          /\ ~collected_items[k][2]
          /\ file_data[collected_items[k][1]].kind = "error"
    /\ Len(collected_items) >= 2

(***************************************************************************)
(* Properties of the content reader                                        *)
(***************************************************************************)
\* the paths of the files among the first n collected items, in order
RECURSIVE FilesAmong(_, _)
FilesAmong(items, n) ==
    IF n = 0 THEN <<>>
    ELSE FilesAmong(items, n - 1)
         \o (IF items[n][2] THEN <<>> ELSE <<items[n][1]>>)

\* the error messages of the unreadable files of a list of paths, in order
RECURSIVE ErrorsAmong(_)
ErrorsAmong(paths) ==
    IF paths = <<>> THEN <<>>
    ELSE (IF file_data[Head(paths)].kind = "error"
          THEN <<"Error reading file " \o Head(paths) \o ": "
                     \o file_data[Head(paths)].text>>
          ELSE <<>>)
         \o ErrorsAmong(Tail(paths))

\* C14: when structure-only is off, the file records emitted so far are one
\* per file among the items processed so far, in collection order, each
\* starting with its marker line; the record of a file whose read fails is
\* the placeholder record; the error list has exactly one entry per such file
\* and none for the others; a failed read never stops the loop, and the run
\* ends with the finished result, which carries all the records.
C14_EveryFileOneRecord ==
    ~structure_only =>
        LET files == FilesAmong(collected_items, item_idx)
        IN  /\ Len(file_contents) = Len(files)
            /\ \A j \in 1..Len(files) :
                  /\ startswith(file_contents[j],
                                file_marker \o files[j] \o "\n\n")
                  /\ file_data[files[j]].kind = "error" =>
                         file_contents[j] =
                             file_marker \o files[j] \o "\n\n"
                                 \o "[Error reading file: "
                                 \o file_data[files[j]].text \o "]"
                                 \o "\n\n" \o RecordSeparator \o "\n"
            /\ errors = ErrorsAmong(files)
            /\ pc \in {"processing", "finished", "no_content", "saved_chunked",
                       "saved_single"}
            /\ pc = "processing" => ENABLED (ProcessItem \/ FinishRun)
            /\ pc = "finished" =>
                  /\ item_idx = Len(collected_items)
                  /\ combined_content = Join(file_contents)

\* C14 witness: a finished run in which the first file could not be read and
\* the file after it was read.
C14_Witness ==
    /\ pc = "finished"
    /\ ~structure_only
    /\ Len(file_contents) = 2
    /\ Len(errors) = 1
    /\ file_data[FilesAmong(collected_items, item_idx)[1]].kind = "error"

(***************************************************************************)
(* Properties of the files written                                         *)
(***************************************************************************)
\* C16: in chunked mode, when the splitter returns exactly one part, exactly
\* one file is written, and its path is the path the single-file mode writes
\* for the same output entry and the same structure-only flag.
C16_OnePartSavedAsSingleFile ==
    (pc = "saved_chunked" /\ Len(parts) = 1) =>
        written_files =
            <<SingleFilePath(OutputTarget(output_path), structure_only)>>

(***************************************************************************)
(* Properties of the pattern matcher                                       *)
(***************************************************************************)
\* the pattern ends in "/": it is for directories only
EndsInSlash(pattern) == pattern # "" /\ CharAt(pattern, Len(pattern)) = "/"

\* the pattern without a leading "!" and without its trailing "/"
Stem(pattern) == RStripSlash(Unnegated(pattern))

\* the pattern is rooted: its stem starts with "/"
IsRooted(pattern) == startswith(Stem(pattern), "/")

\* the patterns of a list that do not end in "/"
RECURSIVE WithoutDirOnly(_)
WithoutDirOnly(patterns) ==
    IF patterns = <<>> THEN <<>>
    ELSE (IF EndsInSlash(Head(patterns)) THEN <<>> ELSE <<Head(patterns)>>)
         \o WithoutDirOnly(Tail(patterns))

\* C17: for a path that is not a directory, no pattern ending in "/" counts
\* as a match, whatever its text, and the value returned is the one the list
\* without these patterns gives: they neither exclude nor re-include the
\* path, and the evaluation goes on with the next pattern.
C17_DirOnlySkipsFiles ==
    (pc = "query_done" /\ ~isdir(query_path)) =>
        /\ \A k \in 1..Len(gitignore_patterns) :
              EndsInSlash(gitignore_patterns[k]) =>
                  ~PatternMatches(gitignore_patterns[k], query_path, FALSE)
        /\ verdict = IgnoreLoop(WithoutDirOnly(gitignore_patterns), 1,
                                query_path, FALSE)

\* C17 witness: the path is a file; the first pattern is negated, ends in "/"
\* and would match the path if it were a directory; a later pattern excludes
\* the path.
C17_Witness ==
    /\ pc = "query_done"
    /\ ~isdir(query_path)
    /\ verdict = TRUE
    /\ Len(gitignore_patterns) >= 2
    /\ startswith(gitignore_patterns[1], "!")
    /\ EndsInSlash(gitignore_patterns[1])
    /\ PatternMatches(gitignore_patterns[1], query_path, TRUE)

\* the glob characters of fnmatch
IsLiteral(pattern) ==
    \A i \in 1..Len(pattern) : CharAt(pattern, i) \notin {"*", "?", "["}

\* the value of the first pattern among those at the positions hits: TRUE
\* when it is not negated, FALSE when it is negated or when hits is empty
FirstVerdict(patterns, hits) ==
    IF hits = {} THEN FALSE
    ELSE ~startswith(patterns[CHOOSE k \in hits : \A h \in hits : k <= h], "!")

\* the match of a rooted pattern with stem "/" + P, as the rule states it
RootedRule(pattern, path, is_dir) ==
    LET P == LStripSlash(Stem(pattern))
    IN  /\ P # ""
        /\ fnmatchcase(path, P) \/ startswith(path, P \o "/")
        /\ ~(EndsInSlash(pattern) /\ ~is_dir)

\* C18: a rooted pattern matches the path if and only if the whole path
\* glob-matches P or the path starts with P + "/" (and the pattern is not a
\* directory-only pattern applied to a file); the value returned is the one
\* this rule gives; a rooted pattern with a literal P does not match a path
\* that only has P as a deeper component.
C18_RootedMatchesWholePath ==
    pc = "query_done" =>
        /\ \A k \in 1..Len(gitignore_patterns) :
              IsRooted(gitignore_patterns[k]) =>
                  /\ PatternMatches(gitignore_patterns[k], query_path,
                                    isdir(query_path))
                         <=> RootedRule(gitignore_patterns[k], query_path,
                                        isdir(query_path))
                  /\ LET P == LStripSlash(Stem(gitignore_patterns[k]))
                     IN  (/\ IsLiteral(P)
                          /\ query_path # P
                          /\ ~startswith(query_path, P \o "/"))
                         => ~PatternMatches(gitignore_patterns[k], query_path,
                                            isdir(query_path))
        /\ verdict =
               FirstVerdict(gitignore_patterns,
                   {k \in 1..Len(gitignore_patterns) :
                       IF IsRooted(gitignore_patterns[k])
                       THEN RootedRule(gitignore_patterns[k], query_path,
                                       isdir(query_path))
                       ELSE PatternMatches(gitignore_patterns[k], query_path,
                                           isdir(query_path))})

\* C18 witness: the only pattern is "/b" and the path is c/b: not excluded.
C18_Witness ==
    /\ pc = "query_done"
    /\ gitignore_patterns = <<"/b">>
    /\ query_path = "c/b"
    /\ verdict = FALSE

\* the match of a pattern that is not rooted, with stem P, as the rule states
\* it
ComponentRule(pattern, path, is_dir) ==
    LET P == Stem(pattern)
        components == SplitSlash(path)
    IN  /\ P # ""
        /\ \E k \in 1..Len(components) : fnmatchcase(components[k], P)
        /\ ~(EndsInSlash(pattern) /\ ~is_dir)

\* C19: a pattern that is not rooted matches the path if and only if one of
\* the components of the path glob-matches P (and the pattern is not a
\* directory-only pattern applied to a file); the base name is the last
\* component; the value returned is the one this rule gives.
C19_UnrootedMatchesAnyComponent ==
    pc = "query_done" =>
        /\ LET components == SplitSlash(query_path)
           IN  basename(query_path) = components[Len(components)]
        /\ \A k \in 1..Len(gitignore_patterns) :
              ~IsRooted(gitignore_patterns[k]) =>
                  (PatternMatches(gitignore_patterns[k], query_path,
                                  isdir(query_path))
                      <=> ComponentRule(gitignore_patterns[k], query_path,
                                        isdir(query_path)))
        /\ verdict =
               FirstVerdict(gitignore_patterns,
                   {k \in 1..Len(gitignore_patterns) :
                       IF IsRooted(gitignore_patterns[k])
                       THEN PatternMatches(gitignore_patterns[k], query_path,
                                           isdir(query_path))
                       ELSE ComponentRule(gitignore_patterns[k], query_path,
                                          isdir(query_path))})

\* C19 witness: the only pattern is "b" and the path is the file b/a.o, below
\* a directory named b: excluded.
C19_Witness ==
    /\ pc = "query_done"
    /\ gitignore_patterns = <<"b">>
    /\ query_path = "b/a.o"
    /\ ~isdir(query_path)
    /\ verdict = TRUE

(***************************************************************************)
(* Properties of the packing                                               *)
(***************************************************************************)
\* the number of lines of the first block of a part: the lines before the
\* first marker line after its first line
FirstBlockLen(part) ==
    LET later == MarkerLinesOf(part) \ {1}
    IN  IF later = {} THEN LineCount(part)
        ELSE (CHOOSE k \in later : \A m \in later : k <= m) - 1

\* the text consists of records of r lines each, with nothing before the
\* first: its marker lines are exactly the lines 1, r + 1, 2r + 1, ...
EqualRecords(text, r) ==
    /\ text # ""
    /\ LineCount(text) % r = 0
    /\ MarkerLinesOf(text) =
           {1 + j * r : j \in 0..((LineCount(text) \div r) - 1)}

\* C20: the packing is greedy. Of two consecutive parts that both have at
\* most max_lines lines, the first was closed because the first block of the
\* second did not fit: together they have more than max_lines lines. When
\* the text consists of records of r <= max_lines lines each, every part but
\* the last holds exactly max_lines \div r whole records, and the last holds
\* at most that many.
C20_GreedyPacking ==
    pc = "split_done" =>
        /\ \A k \in 1..(Len(parts) - 1) :
              (LineCount(parts[k]) <= max_lines
                  /\ LineCount(parts[k + 1]) <= max_lines) =>
                  LineCount(parts[k]) + FirstBlockLen(parts[k + 1]) > max_lines
        /\ \A r \in 1..max_lines :
              EqualRecords(content, r) =>
                  /\ \A k \in 1..(Len(parts) - 1) :
                        /\ LineCount(parts[k]) = (max_lines \div r) * r
                        /\ Cardinality(MarkerLinesOf(parts[k])) = max_lines \div r
                  /\ LineCount(parts[Len(parts)]) <= (max_lines \div r) * r
                  /\ IsMarkerLine(parts[Len(parts)])

\* C20 witness: three records of one line each, split with a budget of two
\* lines: two records in the first part, the third in the last part.
C20_Witness ==
    /\ pc = "split_done"
    /\ max_lines = 2
    /\ EqualRecords(content, 1)
    /\ LineCount(content) = 3
    /\ Len(parts) = 2
    /\ LineCount(parts[1]) = 2

(***************************************************************************)
(* Properties of patterns and paths with a "/" inside                      *)
(***************************************************************************)
HasSlash(str) == \E i \in 1..Len(str) : CharAt(str, i) = "/"

\* the evaluation of the example: the patterns "build/", "!build/keep.txt"
\* applied to one of the two files
BuildFileQuery ==
    /\ pc = "query_done"
    /\ gitignore_patterns = BuildIgnoreLines
    /\ query_path \in {"build/tmp.o", "build/keep.txt"}
    /\ ~isdir(query_path)

\* C21 as stated: for the files build/tmp.o and build/keep.txt the first
\* matching pattern is "build/" and the value returned is TRUE.
C21_Original ==
    BuildFileQuery =>
        /\ 1 \in MatchingPatterns
        /\ verdict = TRUE

\* C21 amended: for the files build/tmp.o and build/keep.txt no pattern of
\* "build/", "!build/keep.txt" matches and the value returned is FALSE; for
\* the directory build the first pattern matches and the value is TRUE.
C21_BuildFilesNotMatched ==
    /\ BuildFileQuery =>
          /\ MatchingPatterns = {}
          /\ verdict = FALSE
    /\ (/\ pc = "query_done"
        /\ gitignore_patterns = BuildIgnoreLines
        /\ query_path = "build"
        /\ isdir(query_path)) =>
          /\ 1 \in MatchingPatterns
          /\ verdict = TRUE

\* C21 witness: the evaluation of the example for the file build/keep.txt.
C21_Witness ==
    /\ BuildFileQuery
    /\ query_path = "build/keep.txt"

\* C22: a rooted pattern whose text P has no "/" glob-matches only paths
\* without a "/": alone in the list and not negated, it does not exclude a
\* path with a "/" that does not start with P + "/".
C22_RootedGlobStaysInSegment ==
    pc = "query_done" =>
        /\ \A k \in 1..Len(gitignore_patterns) :
              LET P == LStripSlash(Stem(gitignore_patterns[k]))
              IN  (/\ IsRooted(gitignore_patterns[k])
                   /\ ~HasSlash(P)
                   /\ fnmatchcase(query_path, P))
                  => ~HasSlash(query_path)
        /\ (/\ Len(gitignore_patterns) = 1
            /\ IsRooted(gitignore_patterns[1])
            /\ ~HasSlash(LStripSlash(Stem(gitignore_patterns[1])))
            /\ HasSlash(query_path)
            /\ ~startswith(query_path,
                           LStripSlash(Stem(gitignore_patterns[1])) \o "/"))
           => verdict = FALSE

\* the pattern has a "/" that fnmatch reads as a literal character: one that
\* is not inside a bracket class; j is the position read next
RECURSIVE LiteralSlashFrom(_, _)
LiteralSlashFrom(pat, j) ==
    IF j > Len(pat) THEN FALSE
    ELSE IF CharAt(pat, j) = "[" /\ ClassEnd(pat, j) # 0
    THEN LiteralSlashFrom(pat, ClassEnd(pat, j) + 1)
    ELSE CharAt(pat, j) = "/" \/ LiteralSlashFrom(pat, j + 1)

\* C26 as stated: a pattern that is not rooted and whose stem contains a "/"
\* matches no path.
C26_Original ==
    pc = "query_done" =>
        \A k \in 1..Len(gitignore_patterns) :
            (~IsRooted(gitignore_patterns[k])
                /\ HasSlash(Stem(gitignore_patterns[k])))
            => ~PatternMatches(gitignore_patterns[k], query_path,
                               isdir(query_path))

\* C26 amended: a pattern that is not rooted and whose stem contains a "/"
\* outside every bracket class matches no path, file or directory; the value
\* returned is the one the list without these patterns gives.
C26_SlashPatternNeverMatches ==
    pc = "query_done" =>
        /\ \A k \in 1..Len(gitignore_patterns) :
              (~IsRooted(gitignore_patterns[k])
                  /\ LiteralSlashFrom(Stem(gitignore_patterns[k]), 1))
              => ~PatternMatches(gitignore_patterns[k], query_path,
                                 isdir(query_path))
        /\ verdict =
               FirstVerdict(gitignore_patterns,
                   {k \in MatchingPatterns :
                       IsRooted(gitignore_patterns[k])
                       \/ ~LiteralSlashFrom(Stem(gitignore_patterns[k]), 1)})

\* C26 witness: the pattern docs/*.md comes first, the path is docs/x.md, and
\* the path is not excluded.
C26_Witness ==
    /\ pc = "query_done"
    /\ Len(gitignore_patterns) >= 1
    /\ gitignore_patterns[1] = "docs/*.md"
    /\ query_path = "docs/x.md"
    /\ verdict = FALSE

(***************************************************************************)
(* The file rules and directories                                          *)
(***************************************************************************)
\* C23: the file-name and extension rules apply to files only, and the
\* extension rule compares the lower-cased extension of the file: a file
\* whose lower-cased final extension is in exclude_extensions is never
\* collected; a directory in a traversed directory whose name is not in
\* exclude_dirs and that the ignore patterns do not exclude is collected and
\* traversed, whatever the file rules say about its name.
C23_FileRulesSkipDirectories ==
    /\ \A p \in AllEntries :
          (~isdir(p)
              /\ Lower(splitext_ext(basename(p))) \in exclude_extensions)
          => p \notin CollectedPaths
    /\ pc = "processing" =>
          \A d \in AllDirs \ {""} :
              (/\ ParentOf(d) \in visited
               /\ basename(d) \notin exclude_dirs
               /\ ~(use_gitignore /\ is_excluded_by_gitignore(d)))
              => (d \in CollectedPaths /\ d \in visited)

\* C23 witness: the scan is over; a file whose extension has an upper-case
\* letter is left out by the extension rule, and a directory whose name the
\* file rules would exclude is collected and traversed.
C23_Witness ==
    /\ pc = "processing"
    /\ \E p \in AllEntries :
          /\ ~isdir(p)
          /\ ParentOf(p) \in visited
          /\ splitext_ext(basename(p)) \notin exclude_extensions
          /\ Lower(splitext_ext(basename(p))) \in exclude_extensions
          /\ ~FileNameExcluded(basename(p))
          /\ p \notin CollectedPaths
    /\ \E d \in AllDirs \ {""} :
          /\ FileNameExcluded(basename(d)) \/ ExtensionExcluded(basename(d))
          /\ d \in CollectedPaths
          /\ d \in visited

(***************************************************************************)
(* The patterns loaded from .gitignore                                     *)
(***************************************************************************)
\* the line without its line break
RECURSIVE WithoutLineBreak(_)
WithoutLineBreak(line) ==
    IF line # "" /\ CharAt(line, Len(line)) \in {"\n", "\r"}
    THEN WithoutLineBreak(SubSeq(line, 1, Len(line) - 1))
    ELSE line

\* text is line without the whitespace at its two ends
IsTrimmed(text, line) ==
    /\ text # ""
    /\ CharAt(text, 1) \notin Whitespace
    /\ CharAt(text, Len(text)) \notin Whitespace
    /\ \E i \in 1..Len(line) :
          /\ SubSeq(line, i, i + Len(text) - 1) = text
          /\ \A k \in 1..Len(line) :
                (k < i \/ k >= i + Len(text)) => CharAt(line, k) \in Whitespace

\* the k-th smallest element of a set of numbers
RECURSIVE KthOf(_, _)
KthOf(S, k) ==
    LET least == CHOOSE x \in S : \A y \in S : x <= y
    IN  IF k = 1 THEN least ELSE KthOf(S \ {least}, k - 1)

\* the file was read by _load_gitignore
FileWasLoaded ==
    /\ pc # "start"
    /\ use_gitignore
    /\ gitignore_file.exists
    /\ gitignore_file.readable

\* C24 as stated: the loaded patterns are the lines of the file, in order,
\* that are not blank and do not begin with "#", character for character
\* (the line break apart).
C24_Original ==
    FileWasLoaded =>
        LET lines == gitignore_file.lines
            kept  == {k \in 1..Len(lines) :
                         /\ \E i \in 1..Len(lines[k]) :
                               CharAt(lines[k], i) \notin Whitespace
                         /\ CharAt(lines[k], 1) # "#"}
        IN  /\ Len(gitignore_patterns) = Cardinality(kept)
            /\ \A i \in 1..Len(gitignore_patterns) :
                  gitignore_patterns[i] = WithoutLineBreak(lines[KthOf(kept, i)])

\* C24 amended: the loaded patterns are, in order, the lines of the file with
\* the whitespace at both ends removed, without those that are then empty or
\* then begin with "#"; when use_gitignore is not set, or the file is missing
\* or cannot be read, the list stays empty.
C24_LoadedPatternsAreTrimmedLines ==
    /\ FileWasLoaded =>
          LET lines == gitignore_file.lines
              kept  == {k \in 1..Len(lines) :
                           \E i \in 1..Len(lines[k]) :
                               /\ CharAt(lines[k], i) \notin Whitespace
                               /\ CharAt(lines[k], i) # "#"
                               /\ \A j \in 1..(i - 1) :
                                     CharAt(lines[k], j) \in Whitespace}
          IN  /\ Len(gitignore_patterns) = Cardinality(kept)
              /\ \A i \in 1..Len(gitignore_patterns) :
                    IsTrimmed(gitignore_patterns[i], lines[KthOf(kept, i)])
    /\ ~FileWasLoaded => gitignore_patterns = <<>>

\* C24 witness: a file was loaded in which one line has whitespace in front
\* of its pattern and one has whitespace in front of its "#".
C24_Witness ==
    /\ FileWasLoaded
    /\ gitignore_file.lines = <<" #b\n", " b\n">>
    /\ gitignore_patterns = <<"b">>
    /\ pc = "processing"

(***************************************************************************)
(* Properties of the structure summary                                     *)
(***************************************************************************)
\* the depth a structure line shows: half the number of its leading spaces
RECURSIVE LeadingSpaces(_)
LeadingSpaces(line) ==
    IF line # "" /\ CharAt(line, 1) = " "
    THEN 1 + LeadingSpaces(Tail(line)) ELSE 0
LineDepth(line) == LeadingSpaces(line) \div 2

\* C27: in the structure summary every entry is listed under its parent: for
\* each line of depth d > 0 the closest preceding line of depth d - 1 is the
\* line of the entry's parent directory.
C27_ListedUnderParent ==
    (Finished /\ (include_structure \/ structure_only)) =>
        \A k \in 1..Len(structure_lines) :
            LineDepth(structure_lines[k]) > 0 =>
                \E j \in 1..(k - 1) :
                    /\ LineDepth(structure_lines[j])
                           = LineDepth(structure_lines[k]) - 1
                    /\ \A i \in (j + 1)..(k - 1) :
                          LineDepth(structure_lines[i])
                              # LineDepth(structure_lines[k]) - 1
                    /\ collected_items[j]
                           = <<ParentOf(collected_items[k][1]), TRUE>>

\* the text contains the piece
Contains(text, piece) ==
    \E i \in 1..(Len(text) - Len(piece) + 1) :
        SubSeq(text, i, i + Len(piece) - 1) = piece

\* C28: in structure-only mode with chunked output the text that is split has
\* no marker line, the splitter returns at most one part, and at most one
\* file is written, never one named "...-structure-PART-...".
C28_StructureOnlyNeverSplit ==
    (pc = "saved_chunked" /\ structure_only) =>
        /\ MarkerLinesOf(content) = {}
        /\ Len(parts) <= 1
        /\ Len(written_files) <= 1
        /\ \A k \in 1..Len(written_files) :
              ~Contains(written_files[k], "-structure-PART-")

\* C28 witness: a structure-only result with an entry whose name starts like
\* a marker line is saved in chunked mode with a budget of one line.
C28_Witness ==
    /\ pc = "saved_chunked"
    /\ structure_only
    /\ max_lines = 1
    /\ \E k \in 1..Len(collected_items) :
          startswith(basename(collected_items[k][1]), file_marker)
    /\ LineCount(content) > 3
    /\ Len(written_files) = 1

(***************************************************************************)
(* Properties of the window and its worker thread                          *)
(***************************************************************************)
\* a step of run_analysis
RunCalled == Len(run_outcomes') = Len(run_outcomes) + 1

\* the step starts no worker and leaves the running one alone
NoWorkerStarted ==
    /\ workers_started' = workers_started
    /\ worker_running' = worker_running
    /\ pc' = pc
    /\ signals' = signals
    /\ run_button_enabled' = run_button_enabled

\* C25 as stated: at most one worker is running at any time; run_analysis
\* called while a worker is running starts no worker and reports "Busy"; a
\* worker is started only by a call that passes the validation while no
\* worker is running.
C25_Original ==
    /\ [](worker_running <= 1)
    /\ [][/\ (RunCalled /\ worker_running > 0) =>
                (/\ NoWorkerStarted
                 /\ run_outcomes'[Len(run_outcomes')] = "Busy")
          /\ workers_started' # workers_started =>
                (RunCalled /\ InputsValid /\ worker_running = 0)]_vars

\* C25 amended: at most one worker is running at any time; run_analysis
\* called while a worker is running starts no worker, and reports "Busy" when
\* the inputs pass the validation and the validation's "Input Error"
\* otherwise; a worker is started only by a call that passes the validation
\* while no worker is running.
C25_OneWorkerAtATime ==
    /\ [](worker_running <= 1)
    /\ [][/\ (RunCalled /\ worker_running > 0) =>
                (/\ NoWorkerStarted
                 /\ run_outcomes'[Len(run_outcomes')] =
                        IF InputsValid THEN "Busy" ELSE "Input Error")
          /\ workers_started' # workers_started =>
                (/\ RunCalled /\ InputsValid /\ worker_running = 0
                 /\ workers_started' = workers_started + 1
                 /\ worker_running' = 1
                 /\ run_outcomes'[Len(run_outcomes')] = "started")]_vars

\* C25 witness: the second call of run_analysis came while the worker of the
\* first call was still running, and reported "Busy".
C25_Witness ==
    /\ run_outcomes = <<"started", "Busy">>
    /\ worker_running = 1
    /\ workers_started = 1

TerminalSignals == {"finished", "error"}
TerminalsEmitted == {k \in 1..Len(signals) : signals[k] \in TerminalSignals}

\* C29: a run of the worker that is not terminated from outside ends with
\* exactly one of the signals finished and error: none while it is running,
\* one once run() is over, nothing after it; a run that raised has emitted
\* error and not finished; and every started run gets there.
C29_OneTerminalSignal ==
    /\ [](/\ Cardinality(TerminalsEmitted) <= 1
          /\ TerminalsEmitted \subseteq {Len(signals)}
          /\ pc \in {"start", "walking", "processing"} =>
                 TerminalsEmitted = {}
          /\ pc \in {"error", "error_shown"} =>
                 (signals # <<>> /\ signals[Len(signals)] = "error")
          /\ pc \in {"finished", "no_content", "saved_chunked",
                     "saved_single"} =>
                 (signals # <<>> /\ signals[Len(signals)] = "finished"))
    /\ (pc = "start") ~> (TerminalsEmitted # {} \/ pc = "closed")

\* C29 witness: a run raised after it had reported progress, and the window
\* has handled the error.
C29_Witness ==
    /\ pc = "error_shown"
    /\ Len(signals) >= 3
    /\ signals[Len(signals)] = "error"

\* C30: the files of a saved result are the ones the output entry's text at
\* the start of the run names.
C30_SavedUnderStartConfiguration ==
    pc \in {"saved_chunked", "saved_single"} =>
        written_files =
            WrittenPaths(OutputTarget(started_output_path),
                         pc = "saved_chunked", structure_only, parts)

====
